---- MODULE Spec2Model ----
(***************************************************************************)
(* A model of gr (daniel7grant/gr): the commands of src/cmd over a local   *)
(* git repository and a hosting provider, the provider adapters' create_pr,*)
(* call_paginated, call and list_prs, the adapters' mapping of backend     *)
(* pull request states to the canonical PullRequestState, and the          *)
(* functions init_vcs, parse_url and get_branch_commits_from_target, and   *)
(* the configuration file under invocations running at the same time.      *)
(*                                                                         *)
(* The specifications share the variables:                                 *)
(*   Spec          one command invocation (pr get, approve, close, merge,  *)
(*                 create; repo fork, delete) from start to exit           *)
(*   SpecCreatePr  one adapter's create_pr                                 *)
(*   SpecPaginated one call_paginated loop against a paged server          *)
(*   SpecState     one backend pull request converted to a PullRequest     *)
(*   SpecListPrs   one adapter's list_prs against the pull requests held   *)
(*   SpecInitVcs   one init_vcs                                            *)
(*   SpecCall      one adapter's call                                      *)
(*   SpecParseUrl  one parse_url                                           *)
(*   SpecCommits   one get_branch_commits_from_target                      *)
(*   SpecDescription  the description pr create submits                   *)
(*   SpecConfig    invocations running at the same time over one           *)
(*                 configuration file                                      *)
(***************************************************************************)
EXTENDS Integers, Sequences, FiniteSets, TLC

VARIABLES
    \* ---- the local repository (git2::Repository behind LocalRepository)
    head,        \* the branch HEAD points to
    branches,    \* the local branches
    upstream,    \* the local branches that have an upstream tracking branch
    dirty,       \* the working tree has local modifications
    remotes,     \* the names of the configured remotes, in order
    \* ---- the configuration file and the remote the repository points to
    conf,        \* Configuration.vcs[hostname], or None
    confSaved,   \* Configuration::save has written the file
    hostname,    \* the host part of the remote URL
    \* ---- one command invocation
    args,        \* the parsed Cli
    pc,          \* the next step of the command
    result,      \* the Result the command returned
    remoteBranch,\* remote_branch inside the command
    pr,          \* the PullRequest the command holds
    calls,       \* the provider calls made so far, in order
    localOps,    \* the mutations of the local repository made so far, in order
    repoData,    \* the Repository a repo command fetched, or None
    entered,     \* the line a command read from standard input, or None
    \* ---- one adapter create_pr
    cpAdapter, cpReq, cpSettings, cpKnown, cpRepo, cpWork, cpPc, cpHttp, cpCreated, cpResult,
    \* ---- one call_paginated loop
    pgAdapter, pgServer, pgFailAt, pgI, pgCollected, pgRequests, pgLastPage, pgResult,
    \* ---- one state conversion
    stAdapter, stWire, stOut,
    \* ---- one call of a function of its arguments alone
    fnCall,      \* the function and its arguments
    fnResult,    \* what it returned, or None before it has
    \* ---- invocations of gr running at the same time over one configuration file
    cfFile,      \* the configuration file on disk
    cfProc       \* each invocation: its step, its Configuration, its writes

vars == <<head, branches, upstream, dirty, remotes, conf, confSaved, hostname,
          args, pc, result, remoteBranch, pr, calls, localOps, repoData, entered,
          cpAdapter, cpReq, cpSettings, cpKnown, cpRepo, cpWork, cpPc, cpHttp, cpCreated, cpResult,
          pgAdapter, pgServer, pgFailAt, pgI, pgCollected, pgRequests, pgLastPage, pgResult,
          stAdapter, stWire, stOut, fnCall, fnResult, cfFile, cfProc>>

cmdVars == <<head, branches, upstream, dirty, remotes, conf, confSaved, hostname,
             args, pc, result, remoteBranch, pr, calls, localOps, repoData, entered>>
cpVars == <<cpAdapter, cpReq, cpSettings, cpKnown, cpRepo, cpWork, cpPc, cpHttp, cpCreated, cpResult>>
pgVars == <<pgAdapter, pgServer, pgFailAt, pgI, pgCollected, pgRequests, pgLastPage, pgResult>>
stVars == <<stAdapter, stWire, stOut>>
fnVars == <<fnCall, fnResult>>
cfVars == <<cfFile, cfProc>>
notCmdVars == <<cpVars, pgVars, stVars, fnVars, cfVars>>
notPrVars == <<notCmdVars, repoData, entered>>

None == "None"

(***************************************************************************)
(* Bounds                                                                  *)
(***************************************************************************)
ShaLen == 2        \* length of a full commit id, in symbols
MaxRemotes == 2    \* how many remotes a repository may have
MaxPrId == 2       \* pull request numbers 1..MaxPrId
\* turns of fork's wait loop that are followed
MaxPolls == 2
MaxLineLen == 3    \* characters of the line typed at repo delete's prompt
MaxCommits == 3    \* commits of a repository
MaxTextLen == 3    \* characters of the text piped into pr create

(***************************************************************************)
(* Sequences                                                               *)
(***************************************************************************)
SeqsUpTo(S, n) == UNION {[1..k -> S] : k \in 0..n}

\* str::starts_with
StartsWith(s, p) == Len(p) <= Len(s) /\ SubSeq(s, 1, Len(p)) = p

(***************************************************************************)
(* The domain of one command invocation                                    *)
(***************************************************************************)
Branches == {"feat", "main"}                 \* the local branches before the command
RemoteBranches == Branches \cup {"release"}  \* branches of the remote; "release" has no local copy
Hostnames == {"github.com", "git.example.org"}
Shas == [1..ShaLen -> {0, 1}]                \* full commit ids
ShaPrefixes == SeqsUpTo({0, 1}, ShaLen)      \* what a provider may report (Bitbucket: a short hash)
PrIds == 1..MaxPrId

\* the commit a local branch points to (git2 reference of the branch)
LocalSha(b) == [i \in 1..ShaLen |-> IF b = "feat" THEN 1 ELSE 0]

\* vcs::common::PullRequest, the fields the commands read
PullRequests ==
    [id : PrIds, source : Branches, target : RemoteBranches,
     source_sha : ShaPrefixes, delete_source_branch : BOOLEAN]
NoPr == [id |-> 0, source |-> None, target |-> None,
         source_sha |-> <<>>, delete_source_branch |-> FALSE]

\* cmd::config::VcsConfig joined with the repository's RepositoryConfig:
\* auth is the host's token, repo_auth and default_branch are the repository's
ConfEntries ==
    [auth : {"host-token"}, vcs_type : {None},
     repo_auth : {None, "repo-token"}, default_branch : {None}, fork : {FALSE}]

\* cmd::args::Cli with its Commands::Pr or Commands::Repo subcommand
CliArgs ==
    [cmd : {"get", "approve", "close"}, branch : Branches \cup {None},
     auth : {None, "cli-token"}, force : {FALSE}, delete : {FALSE},
     merge : {FALSE}, target : {None}, clone : {FALSE}]
    \cup
    [cmd : {"merge"}, branch : Branches \cup {None},
     auth : {None, "cli-token"}, force : BOOLEAN, delete : BOOLEAN,
     merge : {FALSE}, target : {None}, clone : {FALSE}]
    \cup
    [cmd : {"create"}, branch : Branches \cup {None},
     auth : {None, "cli-token"}, force : {FALSE}, delete : BOOLEAN,
     merge : BOOLEAN, target : {None, "main"}, clone : {FALSE}]
    \cup
    [cmd : {"fork"}, branch : {None},
     auth : {None, "cli-token"}, force : {FALSE}, delete : {FALSE},
     merge : {FALSE}, target : {None}, clone : BOOLEAN]
    \cup
    [cmd : {"delete"}, branch : {None},
     auth : {None, "cli-token"}, force : BOOLEAN, delete : {FALSE},
     merge : {FALSE}, target : {None}, clone : {FALSE}]

(***************************************************************************)
(* vcs::common                                                             *)
(***************************************************************************)
\* VersionControlSettings::default()
DefaultSettings == [auth |-> "", vcs_type |-> None, default_branch |-> None]

init_vcs_hostname_first(host, settings) ==
    CASE host = "github.com" -> "GitHub"
      [] host = "bitbucket.org" -> "Bitbucket"
      [] host = "gitlab.com" -> "GitLab"
      [] settings.vcs_type = "github" -> "GitHub"
      [] settings.vcs_type = "bitbucket" -> "Bitbucket"
      [] settings.vcs_type = "gitlab" -> "GitLab"
      [] settings.vcs_type = "gitea" -> "Gitea"
      [] settings.vcs_type # None -> "ServerTypeNotFound"
      [] OTHER -> "ServerTypeUndetected"

\* init_vcs: the adapter, or the error
init_vcs(host, settings) ==
    IF settings.vcs_type # None
    THEN CASE settings.vcs_type = "github" -> "GitHub"
           [] settings.vcs_type = "bitbucket" -> "Bitbucket"
           [] settings.vcs_type = "gitlab" -> "GitLab"
           [] settings.vcs_type = "gitea" -> "Gitea"
           [] OTHER -> "ServerTypeNotFound"
    ELSE CASE host = "github.com" -> "GitHub"
           [] host = "bitbucket.org" -> "Bitbucket"
           [] host = "gitlab.com" -> "GitLab"
           [] OTHER -> "ServerTypeUndetected"

Adapters == {"GitHub", "Bitbucket", "GitLab", "Gitea"}

(***************************************************************************)
(* cmd::config                                                             *)
(***************************************************************************)
\* Configuration::find_settings: Some(settings) or None (an Option is a
\* sequence of at most one element)
\* a slip: the host's token wins over the repository's
find_settings_host_first ==
    IF conf = <<>> THEN <<>>
    ELSE <<[auth |-> conf[1].auth,
            vcs_type |-> conf[1].vcs_type,
            default_branch |-> conf[1].default_branch]>>

find_settings ==
    IF conf = <<>> THEN <<>>
    ELSE <<[auth |-> IF conf[1].repo_auth # None THEN conf[1].repo_auth
                     ELSE conf[1].auth,
            vcs_type |-> conf[1].vcs_type,
            default_branch |-> conf[1].default_branch]>>

\* "Find settings or use the auth command": Some(settings), or None when
\* neither --auth nor a configuration entry exists
resolve_settings ==
    IF args.auth # None
    THEN <<[(IF find_settings = <<>> THEN DefaultSettings ELSE find_settings[1])
              EXCEPT !.auth = args.auth]>>
    ELSE find_settings

\* a provider call: the operation, its branch or id argument, the id of the
\* pull request the provider returned (0: none, the call failed), and the
\* token of the settings the adapter was built with
Call(op, branch, id, r) ==
    [op |-> op, branch |-> branch, id |-> id,
     got |-> IF r.ok THEN r.pr.id ELSE 0, ok |-> r.ok,
     auth |-> resolve_settings[1].auth]

\* a provider call about the repository, and whether it succeeded
RepoCall(op, ok) ==
    [op |-> op, branch |-> None, id |-> 0, got |-> 0, ok |-> ok,
     auth |-> resolve_settings[1].auth]

(***************************************************************************)
(* git::git::LocalRepository                                               *)
(***************************************************************************)
\* the branch a command works on: --branch, else the current branch
selected_branch == IF args.branch # None THEN args.branch ELSE head

\* get_parsed_remote: the tracking branch of the selected branch, or None
get_parsed_remote == IF selected_branch \in upstream THEN selected_branch ELSE None

\* has_modifications
has_modifications == dirty

\* get_branch_sha
get_branch_sha == LocalSha(selected_branch)

\* checkout_remote_branch up to set_head: the error, or "Ok"
\* (find_branch fails for a branch with no local copy; checkout_tree is a
\* safe checkout, which a modified working tree may or may not block)
checkout_outcomes(target) ==
    IF target \notin branches THEN {"BranchNotFound"}
    ELSE IF dirty THEN {"Ok", "CannotCheckout"}
    ELSE {"Ok"}

\* one run of "git pull": git not spawned, not waited for, or run to its
\* exit status
GitPullRuns == {"not spawned", "not waited", "exit 0", "exit 1"}

\* a slip: a pull that exits unsuccessfully is an error
pull_checking_status(run) ==
    CASE run = "not spawned" -> "PullFailedToStart"
      [] run = "not waited" -> "PullFailedToEnd"
      [] run = "exit 1" -> "PullFailed"
      [] OTHER -> "Ok"

\* pull: Err only when git cannot be spawned or waited for; the ExitStatus
\* that wait returns is dropped
pull(run) ==
    CASE run = "not spawned" -> "PullFailedToStart"
      [] run = "not waited" -> "PullFailedToEnd"
      [] OTHER -> "Ok"

\* the local operation a finished pull is recorded as
pull_op(run) == IF run = "exit 1" THEN "pull exit 1" ELSE "pull"

\* delete_branch: the error, or "Ok" (git2 refuses to delete the branch HEAD is on)
delete_outcome(name, cur_head) ==
    IF name \notin branches THEN "BranchNotFound"
    ELSE IF name = cur_head THEN "CannotDeleteBranch"
    ELSE "Ok"

(***************************************************************************)
(* The provider, as a command sees it (trait VersionControl)               *)
(***************************************************************************)
\* what get_pr_by_branch(branch) may return
lookup_responses(branch) ==
    {[ok |-> FALSE, err |-> e, pr |-> NoPr] : e \in {"RequestFailed", "PullRequestNotFound"}}
    \cup {[ok |-> TRUE, err |-> None, pr |-> p] : p \in {q \in PullRequests : q.source = branch}}

\* what merge_pr(id, _) and close_pr(id) may return for the pull request p
\* the provider holds under that id
update_responses(p) ==
    {[ok |-> FALSE, err |-> "RequestFailed", pr |-> NoPr]}
    \cup {[ok |-> TRUE, err |-> None, pr |-> [p EXCEPT !.delete_source_branch = d]] : d \in BOOLEAN}

(***************************************************************************)
(* Steps common to the commands                                            *)
(***************************************************************************)
Fail(e) == pc' = "done" /\ result' = e

localState == <<head, branches, upstream, dirty, remotes>>
confState == <<conf, confSaved, hostname>>

\* a slip: the missing upstream is not checked and the branch's own name is used
Resolve_without_upstream(no_upstream_error, blocked, blocked_error, next_pc) ==
    /\ UNCHANGED <<localState, confState, args, pr, calls, localOps>>
    /\ IF resolve_settings = <<>>
       THEN Fail("AuthNotFound") /\ UNCHANGED remoteBranch
       ELSE IF blocked
       THEN Fail(blocked_error) /\ UNCHANGED remoteBranch
       ELSE IF init_vcs(hostname, resolve_settings[1]) \notin Adapters
       THEN Fail(init_vcs(hostname, resolve_settings[1])) /\ UNCHANGED remoteBranch
       ELSE /\ pc' = next_pc
            /\ remoteBranch' = selected_branch
            /\ UNCHANGED result

\* lines "let repository .. let vcs = init_vcs(..)?" of get, close and merge,
\* with the command's own check between the settings and init_vcs
Resolve(no_upstream_error, blocked, blocked_error, next_pc) ==
    /\ UNCHANGED <<localState, confState, args, pr, calls, localOps>>
    /\ IF get_parsed_remote = None
       THEN Fail(no_upstream_error) /\ UNCHANGED remoteBranch
       ELSE IF resolve_settings = <<>>
       THEN Fail("AuthNotFound") /\ UNCHANGED remoteBranch
       ELSE IF blocked
       THEN Fail(blocked_error) /\ UNCHANGED remoteBranch
       ELSE IF init_vcs(hostname, resolve_settings[1]) \notin Adapters
       THEN Fail(init_vcs(hostname, resolve_settings[1])) /\ UNCHANGED remoteBranch
       ELSE /\ pc' = next_pc
            /\ remoteBranch' = get_parsed_remote
            /\ UNCHANGED result

(***************************************************************************)
(* cmd::pr::merge                                                          *)
(***************************************************************************)
\* "Check if there are local changes if we are on this branch"
merge_blocked_by_modifications == args.branch = None /\ has_modifications /\ ~args.force

\* a slip: starts_with with receiver and argument exchanged
merge_blocked_by_unpushed_swapped(p) == ~StartsWith(p.source_sha, get_branch_sha) /\ ~args.force

\* "Check if there are unpushed changes"
merge_blocked_by_unpushed(p) == ~StartsWith(get_branch_sha, p.source_sha) /\ ~args.force

\* "Checkout to the target branch if we are on this branch"
merge_checks_out == args.branch = None

\* "Delete local branch if remote branch is deleted"
merge_deletes_branch(p) == p.delete_source_branch \/ args.delete

MergeResolve ==
    /\ UNCHANGED notPrVars
    /\ pc = "start" /\ args.cmd = "merge"
    /\ Resolve("PushFirst", merge_blocked_by_modifications, "DirtyWorkingTree", "merge_lookup")

\* vcs.get_pr_by_branch, then the unpushed-changes check
MergeLookup ==
    /\ UNCHANGED notPrVars
    /\ pc = "merge_lookup"
    /\ \E r \in lookup_responses(remoteBranch) :
         /\ calls' = Append(calls, Call("get_pr_by_branch", remoteBranch, 0, r))
         /\ IF ~r.ok THEN Fail(r.err) /\ UNCHANGED pr
            ELSE /\ pr' = r.pr
                 /\ IF merge_blocked_by_unpushed(r.pr)
                    THEN Fail("UnpushedChanges")
                    ELSE pc' = "merge_call" /\ UNCHANGED result
    /\ UNCHANGED <<localState, confState, args, remoteBranch, localOps>>

\* a variant that goes on to the local repository whatever merge_pr returned
merge_proceeds_regardless(r) == TRUE
\* the ? after vcs.merge_pr(..): the command goes on only with Ok
merge_proceeds(r) == r.ok

\* vcs.merge_pr(pr.id, delete)
MergeCall ==
    /\ UNCHANGED notPrVars
    /\ pc = "merge_call"
    /\ \E r \in update_responses(pr) :
         /\ calls' = Append(calls, Call("merge_pr", None, pr.id, r))
         /\ IF ~merge_proceeds(r) THEN Fail(r.err) /\ UNCHANGED pr
            ELSE /\ pr' = (IF r.ok THEN r.pr ELSE pr)
                 /\ pc' = "merge_checkout" /\ UNCHANGED result
    /\ UNCHANGED <<localState, confState, args, remoteBranch, localOps>>

\* repository.checkout_remote_branch(pr.target, ..), when no --branch was given
MergeCheckout ==
    /\ UNCHANGED notPrVars
    /\ pc = "merge_checkout"
    /\ IF ~merge_checks_out
       THEN pc' = "merge_delete" /\ UNCHANGED <<head, result, localOps>>
       ELSE \E c \in checkout_outcomes(pr.target), run \in GitPullRuns :
              IF c # "Ok"
              THEN Fail(c) /\ UNCHANGED <<head, localOps>>
              ELSE /\ head' = pr.target
                   /\ IF pull(run) # "Ok"
                      THEN Fail(pull(run)) /\ localOps' = Append(localOps, "checkout")
                      ELSE /\ pc' = "merge_delete" /\ UNCHANGED result
                           /\ localOps' = localOps \o <<"checkout", pull_op(run)>>
    /\ UNCHANGED <<branches, upstream, dirty, remotes, confState, args,
                   remoteBranch, pr, calls>>

\* repository.delete_branch(pr.source), when asked for or done by the provider
MergeDelete ==
    /\ UNCHANGED notPrVars
    /\ pc = "merge_delete"
    /\ IF ~merge_deletes_branch(pr)
       THEN Fail("Ok") /\ UNCHANGED <<branches, upstream, localOps>>
       ELSE IF delete_outcome(pr.source, head) # "Ok"
       THEN Fail(delete_outcome(pr.source, head)) /\ UNCHANGED <<branches, upstream, localOps>>
       ELSE /\ branches' = branches \ {pr.source}
            /\ upstream' = upstream \ {pr.source}
            /\ localOps' = Append(localOps, "delete_branch")
            /\ Fail("Ok")
    /\ UNCHANGED <<head, dirty, remotes, confState, args, remoteBranch, pr, calls>>

(***************************************************************************)
(* cmd::pr::close                                                          *)
(***************************************************************************)
CloseResolve ==
    /\ UNCHANGED notPrVars
    /\ pc = "start" /\ args.cmd = "close"
    /\ Resolve("PushFirst", FALSE, None, "close_lookup")

\* a slip: close works from a remembered pull request and asks the provider nothing
CloseLookup_remembered ==
    /\ UNCHANGED notPrVars
    /\ pc = "close_lookup"
    /\ \E p \in {q \in PullRequests : q.source = remoteBranch} : pr' = p
    /\ pc' = "close_call"
    /\ UNCHANGED <<localState, confState, args, remoteBranch, localOps, calls, result>>

\* vcs.get_pr_by_branch(&remote_branch)
CloseLookup ==
    /\ UNCHANGED notPrVars
    /\ pc = "close_lookup"
    /\ \E r \in lookup_responses(remoteBranch) :
         /\ calls' = Append(calls, Call("get_pr_by_branch", remoteBranch, 0, r))
         /\ IF ~r.ok THEN Fail(r.err) /\ UNCHANGED pr
            ELSE pr' = r.pr /\ pc' = "close_call" /\ UNCHANGED result
    /\ UNCHANGED <<localState, confState, args, remoteBranch, localOps>>

\* vcs.close_pr(pr.id)
CloseCall ==
    /\ UNCHANGED notPrVars
    /\ pc = "close_call"
    /\ \E r \in update_responses(pr) :
         /\ calls' = Append(calls, Call("close_pr", None, pr.id, r))
         /\ IF ~r.ok THEN Fail(r.err) /\ UNCHANGED pr
            ELSE pr' = r.pr /\ Fail("Ok")
    /\ UNCHANGED <<localState, confState, args, remoteBranch, localOps>>

(***************************************************************************)
(* cmd::pr::get                                                            *)
(***************************************************************************)
GetResolve ==
    /\ UNCHANGED notPrVars
    /\ pc = "start" /\ args.cmd = "get"
    /\ Resolve("PushFirst", FALSE, None, "get_lookup")

\* vcs.get_pr_by_branch(&remote_branch), then print
GetLookup ==
    /\ UNCHANGED notPrVars
    /\ pc = "get_lookup"
    /\ \E r \in lookup_responses(remoteBranch) :
         /\ calls' = Append(calls, Call("get_pr_by_branch", remoteBranch, 0, r))
         /\ IF ~r.ok THEN Fail(r.err) /\ UNCHANGED pr
            ELSE pr' = r.pr /\ Fail("Ok")
    /\ UNCHANGED <<localState, confState, args, remoteBranch, localOps>>

(***************************************************************************)
(* cmd::pr::approve                                                        *)
(***************************************************************************)
\* repo.get_remote_branch(branch)? fails for a branch with no upstream
ApproveResolve ==
    /\ UNCHANGED notPrVars
    /\ pc = "start" /\ args.cmd = "approve"
    /\ Resolve("NoUpstreamBranch", FALSE, None, "approve_lookup")

\* vcs.get_pr_by_branch(&remote_branch)
ApproveLookup ==
    /\ UNCHANGED notPrVars
    /\ pc = "approve_lookup"
    /\ \E r \in lookup_responses(remoteBranch) :
         /\ calls' = Append(calls, Call("get_pr_by_branch", remoteBranch, 0, r))
         /\ IF ~r.ok THEN Fail(r.err) /\ UNCHANGED pr
            ELSE pr' = r.pr /\ pc' = "approve_call" /\ UNCHANGED result
    /\ UNCHANGED <<localState, confState, args, remoteBranch, localOps>>

\* vcs.approve_pr(pr.id)
ApproveCall ==
    /\ UNCHANGED notPrVars
    /\ pc = "approve_call"
    /\ \E ok \in BOOLEAN :
         /\ calls' = Append(calls, Call("approve_pr", None, pr.id, [ok |-> ok, pr |-> NoPr]))
         /\ Fail(IF ok THEN "Ok" ELSE "RequestFailed")
    /\ UNCHANGED <<localState, confState, args, remoteBranch, pr, localOps>>

(***************************************************************************)
(* cmd::pr::create                                                         *)
(***************************************************************************)
\* what create_pr may return: the target is --target, else the cached default
\* branch, else the repository's default branch (any branch of the remote)
create_responses(branch) ==
    LET settings == resolve_settings[1]
        targets == IF args.target # None THEN {args.target}
                   ELSE IF settings.default_branch # None THEN {settings.default_branch}
                   ELSE RemoteBranches
    IN  {[ok |-> FALSE, err |-> "RequestFailed", pr |-> NoPr]}
        \cup {[ok |-> TRUE, err |-> None, pr |-> p] :
                p \in {q \in PullRequests : /\ q.source = branch
                                            /\ q.target \in targets
                                            /\ q.source_sha = LocalSha(selected_branch)}}

\* "If branch has no remote, we can push it first", the settings and init_vcs
CreateResolve ==
    /\ UNCHANGED notPrVars
    /\ pc = "start" /\ args.cmd = "create"
    /\ UNCHANGED <<head, branches, dirty, remotes, confState, args, pr, calls>>
    /\ IF get_parsed_remote = None /\ remotes = <<>>
       THEN Fail("NoRemotes") /\ UNCHANGED <<upstream, remoteBranch, localOps>>
       ELSE \E pushed \in (IF get_parsed_remote = None THEN BOOLEAN ELSE {TRUE}) :
              IF ~pushed
              THEN Fail("PushFailed") /\ UNCHANGED <<upstream, remoteBranch, localOps>>
              ELSE /\ upstream' = upstream \cup {selected_branch}
                   /\ localOps' = IF get_parsed_remote = None
                                  THEN Append(localOps, "push") ELSE localOps
                   /\ IF resolve_settings = <<>>
                      THEN Fail("AuthNotFound") /\ UNCHANGED remoteBranch
                      ELSE IF init_vcs(hostname, resolve_settings[1]) \notin Adapters
                      THEN Fail(init_vcs(hostname, resolve_settings[1])) /\ UNCHANGED remoteBranch
                      ELSE /\ pc' = "create_call"
                           /\ remoteBranch' = selected_branch
                           /\ UNCHANGED result

\* vcs.create_pr(CreatePullRequest {..})
CreateCall ==
    /\ UNCHANGED notPrVars
    /\ pc = "create_call"
    /\ \E r \in create_responses(remoteBranch) :
         /\ calls' = Append(calls, Call("create_pr", remoteBranch, 0, r))
         /\ IF ~r.ok THEN Fail(r.err) /\ UNCHANGED pr
            ELSE /\ pr' = r.pr
                 /\ pc' = IF args.merge THEN "create_merge" ELSE "create_save"
                 /\ UNCHANGED result
    /\ UNCHANGED <<localState, confState, args, remoteBranch, localOps>>

\* "Merge the PR instantly if merge is passed": vcs.merge_pr(pr.id, false)
CreateMerge ==
    /\ UNCHANGED notPrVars
    /\ pc = "create_merge"
    /\ \E r \in update_responses(pr) :
         /\ calls' = Append(calls, Call("merge_pr", None, pr.id, r))
         /\ IF ~r.ok THEN Fail(r.err) /\ UNCHANGED pr
            ELSE pr' = r.pr /\ pc' = "create_checkout" /\ UNCHANGED result
    /\ UNCHANGED <<localState, confState, args, remoteBranch, localOps>>

\* checkout_remote_branch(pr.target, ..), then delete_branch(pr.source) with --delete
CreateCheckout ==
    /\ UNCHANGED notPrVars
    /\ pc = "create_checkout"
    /\ UNCHANGED <<dirty, remotes, confState, args, remoteBranch, pr, calls>>
    /\ \E c \in checkout_outcomes(pr.target), run \in GitPullRuns :
         IF c # "Ok"
         THEN Fail(c) /\ UNCHANGED <<head, branches, upstream, localOps>>
         ELSE /\ head' = pr.target
              /\ IF pull(run) # "Ok"
                 THEN /\ Fail(pull(run)) /\ localOps' = Append(localOps, "checkout")
                      /\ UNCHANGED <<branches, upstream>>
                 ELSE IF ~args.delete
                 THEN /\ pc' = "create_save" /\ UNCHANGED <<result, branches, upstream>>
                      /\ localOps' = localOps \o <<"checkout", pull_op(run)>>
                 ELSE IF delete_outcome(pr.source, pr.target) # "Ok"
                 THEN /\ Fail(delete_outcome(pr.source, pr.target))
                      /\ localOps' = localOps \o <<"checkout", pull_op(run)>>
                      /\ UNCHANGED <<branches, upstream>>
                 ELSE /\ pc' = "create_save" /\ UNCHANGED result
                      /\ branches' = branches \ {pr.source}
                      /\ upstream' = upstream \ {pr.source}
                      /\ localOps' = localOps \o <<"checkout", pull_op(run), "delete_branch">>

\* a slip: nothing is cached
cache_default_branch_dropped(c, target) == c

\* conf.vcs.entry(hostname).and_modify(..): the repository's entry of a
\* configured host gets the default branch, a host without entry gets nothing
cache_default_branch(c, target) ==
    IF c = <<>> THEN c ELSE <<[c[1] EXCEPT !.default_branch = target]>>

\* "Save default branch to config for caching"
CreateSave ==
    /\ UNCHANGED notPrVars
    /\ pc = "create_save"
    /\ UNCHANGED <<localState, hostname, args, remoteBranch, pr, calls, localOps>>
    /\ IF args.target # None
       THEN Fail("Ok") /\ UNCHANGED <<conf, confSaved>>
       ELSE /\ conf' = cache_default_branch(conf, pr.target)
            /\ \E written \in BOOLEAN :
                 /\ confSaved' = written
                 /\ Fail(IF written THEN "Ok" ELSE "CannotWriteConfig")

(***************************************************************************)
(* cmd::repo::fork                                                         *)
(***************************************************************************)
\* vcs::common::Repository as fork reads it: full_name, forked_from.is_some()
ForkedRepositories == [full_name : {"me/repo"}, forked : BOOLEAN]

\* parse_url(&source)?, the settings and the first init_vcs
ForkResolve ==
    /\ UNCHANGED notPrVars
    /\ pc = "start" /\ args.cmd = "fork"
    /\ UNCHANGED <<localState, confState, args, pr, calls, localOps, remoteBranch>>
    /\ \E parsed \in BOOLEAN :
         IF ~parsed THEN Fail("InvalidUrl")
         ELSE IF resolve_settings = <<>> THEN Fail("AuthNotFound")
         ELSE IF init_vcs(hostname, resolve_settings[1]) \notin Adapters
         THEN Fail(init_vcs(hostname, resolve_settings[1]))
         ELSE pc' = "fork_call" /\ UNCHANGED result

\* vcs.fork_repository(ForkRepository {..})?, repo.print, the second init_vcs
ForkCall ==
    /\ UNCHANGED <<notCmdVars, entered>>
    /\ pc = "fork_call"
    /\ UNCHANGED <<localState, confState, args, pr, localOps, remoteBranch>>
    /\ \/ /\ calls' = Append(calls, RepoCall("fork_repository", FALSE))
          /\ Fail("RequestFailed") /\ UNCHANGED repoData
       \/ \E repo \in ForkedRepositories :
            /\ calls' = Append(calls, RepoCall("fork_repository", TRUE))
            /\ repoData' = <<repo>>
            /\ pc' = IF args.clone THEN "fork_wait" ELSE "fork_save"
            /\ UNCHANGED result

\* one turn of "while vcs.get_repository().is_err() { sleep(..) }"
ForkWait ==
    /\ UNCHANGED notPrVars
    /\ pc = "fork_wait"
    /\ UNCHANGED <<localState, confState, args, pr, localOps, remoteBranch, result>>
    /\ Cardinality({i \in 1..Len(calls) : calls[i].op = "get_repository"}) < MaxPolls
    /\ \E ok \in BOOLEAN :
         /\ calls' = Append(calls, RepoCall("get_repository", ok))
         /\ pc' = IF ok THEN "fork_clone" ELSE "fork_wait"

\* LocalRepository::init(dir)?, then clone by ssh or else by https
ForkClone ==
    /\ UNCHANGED notPrVars
    /\ pc = "fork_clone"
    /\ UNCHANGED <<localState, confState, args, pr, calls, remoteBranch>>
    /\ \/ Fail("RepositoryNotFound") /\ UNCHANGED localOps
       \/ localOps' = Append(localOps, "clone_ssh") /\ pc' = "fork_save" /\ UNCHANGED result
       \/ \E https \in BOOLEAN :
            /\ localOps' = localOps \o <<"clone_ssh", "clone_https">>
            /\ IF https THEN pc' = "fork_save" /\ UNCHANGED result
               ELSE Fail("CloneFailed")

\* "Update configuration with setting up if it is forked", conf.save()?
ForkSave ==
    /\ UNCHANGED notPrVars
    /\ pc = "fork_save"
    /\ UNCHANGED <<localState, hostname, args, remoteBranch, pr, calls, localOps>>
    /\ conf' = IF conf = <<>> THEN conf
               ELSE <<[conf[1] EXCEPT !.fork = repoData[1].forked]>>
    /\ \E written \in BOOLEAN :
         /\ confSaved' = written
         /\ Fail(IF written THEN "Ok" ELSE "CannotWriteConfig")

(***************************************************************************)
(* cmd::repo::delete                                                       *)
(***************************************************************************)
\* full names of repositories and lines read from stdin, as characters
\* (" " stands for any white space, the line's end included)
RepositoryNames == {<<"r">>}
TypedLines == SeqsUpTo({"r", "x", " "}, MaxLineLen)

RECURSIVE trim_start(_)
trim_start(s) == IF s # <<>> /\ Head(s) = " " THEN trim_start(Tail(s)) ELSE s
RECURSIVE trim_end(_)
trim_end(s) ==
    IF s # <<>> /\ s[Len(s)] = " " THEN trim_end(SubSeq(s, 1, Len(s) - 1)) ELSE s
\* str::trim
trim(s) == trim_end(trim_start(s))

\* a slip: any line that starts with the name is accepted
name_confirmed_by_prefix(line, repo) == StartsWith(trim(line), repo.full_name)

\* "entered_name = entered_name.trim(); if entered_name != repo.full_name"
name_confirmed(line, repo) == trim(line) = repo.full_name

\* get_parsed_remote(branch)?, the settings and init_vcs; what
\* get_parsed_remote does for a branch with no upstream is not in the
\* sources at hand: it may fail or find the host through a remote
DeleteResolve ==
    /\ UNCHANGED notPrVars
    /\ pc = "start" /\ args.cmd = "delete"
    /\ UNCHANGED <<localState, confState, args, pr, calls, localOps, remoteBranch>>
    /\ \E found \in (IF get_parsed_remote # None THEN {TRUE}
                      ELSE IF remotes = <<>> THEN {FALSE} ELSE BOOLEAN) :
         IF ~found THEN Fail("NoRemote")
         ELSE IF resolve_settings = <<>> THEN Fail("AuthNotFound")
         ELSE IF init_vcs(hostname, resolve_settings[1]) \notin Adapters
         THEN Fail(init_vcs(hostname, resolve_settings[1]))
         ELSE pc' = "delete_get" /\ UNCHANGED result

\* vcs.get_repository()?, repo.print
DeleteGet ==
    /\ UNCHANGED <<notCmdVars, entered>>
    /\ pc = "delete_get"
    /\ UNCHANGED <<localState, confState, args, pr, localOps, remoteBranch>>
    /\ \/ /\ calls' = Append(calls, RepoCall("get_repository", FALSE))
          /\ Fail("RequestFailed") /\ UNCHANGED repoData
       \/ \E name \in RepositoryNames :
            /\ calls' = Append(calls, RepoCall("get_repository", TRUE))
            /\ repoData' = <<[full_name |-> name, forked |-> FALSE]>>
            /\ pc' = IF args.force THEN "delete_call" ELSE "delete_confirm"
            /\ UNCHANGED result

\* "if !force { .. }": the prompt, read_line and the comparison
DeleteConfirm ==
    /\ UNCHANGED <<notCmdVars, repoData>>
    /\ pc = "delete_confirm"
    /\ UNCHANGED <<localState, confState, args, pr, calls, localOps, remoteBranch>>
    /\ \/ Fail("ReadingNameFailed") /\ UNCHANGED entered
       \/ \E line \in TypedLines :
            /\ entered' = <<line>>
            /\ IF name_confirmed(line, repoData[1])
               THEN pc' = "delete_call" /\ UNCHANGED result
               ELSE Fail("CannotDelete")

\* vcs.delete_repository()?
DeleteCall ==
    /\ UNCHANGED notPrVars
    /\ pc = "delete_call"
    /\ UNCHANGED <<localState, confState, args, pr, localOps, remoteBranch>>
    /\ \E ok \in BOOLEAN :
         /\ calls' = Append(calls, RepoCall("delete_repository", ok))
         /\ Fail(IF ok THEN "Ok" ELSE "RequestFailed")

(***************************************************************************)
(* One command invocation                                                  *)
(***************************************************************************)
IdleCreatePr ==
    /\ cpAdapter = None /\ cpReq = <<>> /\ cpSettings = <<>> /\ cpKnown = {}
    /\ cpRepo = <<>> /\ cpWork = <<>> /\ cpPc = "idle" /\ cpHttp = <<>>
    /\ cpCreated = <<>> /\ cpResult = <<>>
IdlePaginated ==
    /\ pgAdapter = None /\ pgServer = <<>> /\ pgFailAt = 0 /\ pgI = 0
    /\ pgCollected = <<>> /\ pgRequests = 0 /\ pgLastPage = <<>> /\ pgResult = None
IdleState == stAdapter = None /\ stWire = <<>> /\ stOut = <<>>
IdleCommand ==
    /\ head = "main" /\ branches = Branches /\ upstream = {} /\ dirty = FALSE
    /\ remotes = <<>> /\ conf = <<>> /\ confSaved = FALSE /\ hostname = "github.com"
    /\ args = <<>> /\ pc = "idle" /\ result = None /\ remoteBranch = None
    /\ pr = NoPr /\ calls = <<>> /\ localOps = <<>>
    /\ repoData = <<>> /\ entered = <<>>
IdleFn == fnCall = <<>> /\ fnResult = <<>>
IdleConfig == cfFile = <<>> /\ cfProc = <<>>

\* a repository as git leaves it, a configuration as main read it, a parsed Cli
Init ==
    /\ head \in Branches
    /\ branches = Branches
    /\ upstream \in SUBSET Branches
    /\ dirty \in BOOLEAN
    /\ remotes \in {[i \in 1..k |-> i] : k \in 0..MaxRemotes}
    /\ upstream # {} => remotes # <<>>      \* an upstream branch lives on a remote
    /\ conf \in {<<>>} \cup {<<e>> : e \in ConfEntries}
    /\ confSaved = FALSE
    /\ hostname \in Hostnames
    /\ args \in CliArgs
    /\ pc = "start" /\ result = None /\ remoteBranch = None
    /\ pr = NoPr /\ calls = <<>> /\ localOps = <<>>
    /\ repoData = <<>> /\ entered = <<>>
    /\ IdleCreatePr /\ IdlePaginated /\ IdleState /\ IdleFn /\ IdleConfig

Next ==
    \/ MergeResolve \/ MergeLookup \/ MergeCall \/ MergeCheckout \/ MergeDelete
    \/ CloseResolve \/ CloseLookup \/ CloseCall
    \/ GetResolve \/ GetLookup
    \/ ApproveResolve \/ ApproveLookup \/ ApproveCall
    \/ CreateResolve \/ CreateCall \/ CreateMerge \/ CreateCheckout \/ CreateSave
    \/ ForkResolve \/ ForkCall \/ ForkWait \/ ForkClone \/ ForkSave
    \/ DeleteResolve \/ DeleteGet \/ DeleteConfirm \/ DeleteCall

Spec == Init /\ [][Next]_vars

(***************************************************************************)
(* Properties of one command invocation (specification Spec)               *)
(***************************************************************************)
HasCall(op) == \E i \in 1..Len(calls) : calls[i].op = op
Done == pc = "done"
\* the errors a command returns before it reaches its own checks
ResolutionErrors == {"PushFirst", "AuthNotFound"}

\* C1: pr merge without --force, once the pull request is fetched: if the
\* local branch's commit id does not start with the pull request's source
\* commit id, the command has failed with the unpushed-changes error and made
\* no merge_pr call; if it does (the two are equal, or the provider reports a
\* short id), the command goes on to merge_pr.
C1_UnpushedChangesBlockMerge ==
    (args.cmd = "merge" /\ ~args.force /\ pr # NoPr) =>
        IF StartsWith(LocalSha(remoteBranch), pr.source_sha)
        THEN pc = "merge_call" \/ HasCall("merge_pr")
        ELSE Done /\ result = "UnpushedChanges" /\ ~HasCall("merge_pr")

C1_Witness ==
    /\ args.cmd = "merge" /\ ~args.force /\ pr # NoPr
    /\ ~StartsWith(LocalSha(remoteBranch), pr.source_sha)
    /\ Done /\ result = "UnpushedChanges"

\* C2 as claimed: pr merge of the checked-out branch, selected by default or
\* by --branch, with local modifications and no --force makes no
\* get_pr_by_branch or merge_pr call and fails.
C2_AsClaimed ==
    (/\ args.cmd = "merge" /\ dirty /\ ~args.force
     /\ (args.branch = None \/ args.branch = head)) =>
        /\ ~HasCall("get_pr_by_branch") /\ ~HasCall("merge_pr")
        /\ Done => result # "Ok"

\* C2, the case the code guards: pr merge with no --branch given, local
\* modifications and no --force makes no provider call and fails; the failure
\* is the dirty-working-tree error whenever the branch has an upstream and
\* the settings were found.
C2_DirtyTreeBlocksDefaultMerge ==
    (args.cmd = "merge" /\ args.branch = None /\ dirty /\ ~args.force) =>
        /\ calls = <<>>
        /\ pc \in {"start", "done"}
        /\ Done => result \in {"DirtyWorkingTree"} \cup ResolutionErrors
        /\ (Done /\ head \in upstream /\ resolve_settings # <<>>) => result = "DirtyWorkingTree"

C2_Witness ==
    /\ args.cmd = "merge" /\ args.branch = None /\ dirty /\ ~args.force
    /\ Done /\ result = "DirtyWorkingTree"

IsMutation(c) == c.op \in {"merge_pr", "close_pr"}

\* C3 as claimed: every merge_pr or close_pr call follows a get_pr_by_branch
\* or get_pr_by_id call of the same invocation.
C3_AsClaimed ==
    \A i \in 1..Len(calls) :
        IsMutation(calls[i]) =>
            \E j \in 1..(i - 1) : calls[j].op \in {"get_pr_by_branch", "get_pr_by_id"}

\* C3, amended: every merge_pr or close_pr call follows, in the same
\* invocation, a successful provider call that returned the pull request with
\* the id it passes: get_pr_by_branch in merge and close, create_pr in create
\* with --merge.
C3_MutationFollowsFreshPr ==
    \A i \in 1..Len(calls) :
        IsMutation(calls[i]) =>
            \E j \in 1..(i - 1) :
                /\ calls[j].op = (IF args.cmd = "create" THEN "create_pr" ELSE "get_pr_by_branch")
                /\ calls[j].got = calls[i].id

C3_Witness ==
    /\ args.cmd = "close" /\ Done /\ result = "Ok"
    /\ Len(calls) = 2 /\ calls[2].op = "close_pr" /\ calls[1].got = calls[2].id

C4_CreateContinues ==
    args.cmd = "create" /\ localOps = <<"push">> /\ HasCall("create_pr")

\* C5 as claimed: pr merge of the checked-out branch, selected by default or
\* by --branch, that ended successfully has left HEAD on the merged pull
\* request's target branch.
C5_AsClaimed ==
    (/\ args.cmd = "merge" /\ Done /\ result = "Ok"
     /\ (args.branch = None \/ args.branch = head)) =>
        head = pr.target

\* C5, the case the code covers: pr merge with no --branch given, ended
\* successfully, leaves HEAD on the merged pull request's target branch; HEAD
\* moves only in the checkout step, which follows the successful merge_pr.
C5_MergeLeavesHeadOnTarget ==
    /\ []((args.cmd = "merge" /\ args.branch = None /\ Done /\ result = "Ok")
            => head = pr.target)
    /\ [][(args.cmd = "merge" /\ head' # head) =>
            /\ pc = "merge_checkout" /\ head' = pr.target
            /\ calls[Len(calls)].op = "merge_pr" /\ calls[Len(calls)].got = pr.id]_vars

C5_Witness ==
    /\ args.cmd = "merge" /\ args.branch = None /\ Done /\ result = "Ok"
    /\ head = pr.target /\ pr.target # pr.source
    /\ HasCall("merge_pr") /\ localOps = <<"checkout", "pull">>

\* the token the precedence --auth > repository > host selects, or None
PrecedenceAuth ==
    IF args.auth # None THEN args.auth
    ELSE IF conf = <<>> THEN None
    ELSE IF conf[1].repo_auth # None THEN conf[1].repo_auth
    ELSE conf[1].auth

C14_NoTokenWitness ==
    /\ PrecedenceAuth = None /\ Done /\ result = "AuthNotFound" /\ calls = <<>>

FailedCall == \E i \in 1..Len(calls) : ~calls[i].ok

\* C16 as claimed: in one invocation a provider call that failed has ended
\* the command with an error, and no provider call is made after it.
C16_AsClaimed ==
    /\ [](FailedCall => Done /\ result # "Ok")
    /\ [][FailedCall => calls' = calls]_vars

\* C16, outside fork --clone: the commands without a wait loop end with an
\* error at their first failed provider call and make no call after it.
C16_FirstFailureEndsOtherCommands ==
    /\ []((FailedCall /\ ~(args.cmd = "fork" /\ args.clone)) => Done /\ result # "Ok")
    /\ [][(FailedCall /\ ~(args.cmd = "fork" /\ args.clone)) => calls' = calls]_vars

\* fork --clone asking for the repository again after a failed get_repository
C16_RetryWitness ==
    /\ args.cmd = "fork" /\ args.clone /\ Len(calls) = 3
    /\ calls[2].op = "get_repository" /\ ~calls[2].ok
    /\ calls[3].op = "get_repository"

\* the line is the name with nothing but white space around it
TypedNameIs(line, name) ==
    \E a, b \in 0..Len(line) :
        /\ a + Len(name) + b = Len(line)
        /\ \A i \in 1..a : line[i] = " "
        /\ \A i \in 1..Len(name) : line[a + i] = name[i]
        /\ \A i \in 1..b : line[a + Len(name) + i] = " "

\* C17: repo delete sends delete_repository only with --yes-delete-permanently
\* or after the typed name (the line without the white space around it)
\* equalled the full name get_repository returned; after a different name
\* the command has failed with the mismatch error and sent no delete request.
C17_DeleteOnlyWhenConfirmed ==
    args.cmd = "delete" =>
        /\ HasCall("delete_repository") =>
            /\ Len(calls) = 2 /\ calls[1].op = "get_repository" /\ calls[1].ok
            /\ args.force \/ (entered # <<>> /\ TypedNameIs(entered[1], repoData[1].full_name))
        /\ (entered # <<>> /\ ~TypedNameIs(entered[1], repoData[1].full_name)) =>
            /\ Done /\ result = "CannotDelete"
            /\ ~HasCall("delete_repository")

\* the name typed with white space around it, and the repository deleted
C17_Witness ==
    /\ args.cmd = "delete" /\ ~args.force /\ entered = <<<<" ", "r", " ">>>>
    /\ HasCall("delete_repository") /\ Done /\ result = "Ok"

\* a longer name typed, and no delete request
C17_MismatchWitness ==
    /\ args.cmd = "delete" /\ entered = <<<<"r", "x">>>>
    /\ Done /\ result = "CannotDelete" /\ ~HasCall("delete_repository")

\* --yes-delete-permanently: the repository deleted with nothing typed
C17_ForceWitness ==
    /\ args.cmd = "delete" /\ args.force /\ entered = <<>>
    /\ HasCall("delete_repository") /\ Done /\ result = "Ok"

\* pr merge ended after a successful merge_pr, with no failure of git's
\* checkout or pull, for a pull request between two different branches
MergedAndEnded ==
    /\ args.cmd = "merge" /\ Done
    /\ \E i \in 1..Len(calls) : calls[i].op = "merge_pr" /\ calls[i].ok
    /\ result \notin {"BranchNotFound", "CannotCheckout", "PullFailedToStart", "PullFailedToEnd"}
    /\ pr.source # pr.target

\* C20 as claimed: after a successful merge_pr the local source branch is
\* gone exactly when --delete was passed or the merged pull request has its
\* delete-source-branch flag set, and the deletion follows the checkout.
C20_AsClaimed ==
    MergedAndEnded =>
        /\ (pr.source \notin branches) <=> (args.delete \/ pr.delete_source_branch)
        /\ \A i, j \in 1..Len(localOps) :
             (localOps[i] = "delete_branch" /\ localOps[j] = "checkout") => j < i

\* C20, when --branch does not name the checked-out branch: the same.
C20_DeletesUnlessBranchIsHead ==
    (MergedAndEnded /\ ~(args.branch # None /\ args.branch = head)) =>
        /\ (pr.source \notin branches) <=> (args.delete \/ pr.delete_source_branch)
        /\ \A i, j \in 1..Len(localOps) :
             (localOps[i] = "delete_branch" /\ localOps[j] = "checkout") => j < i

\* the branch deleted after the checkout of the target
C20_DeletedWitness ==
    /\ MergedAndEnded /\ args.branch = None /\ args.delete
    /\ pr.source \notin branches /\ result = "Ok"
    /\ localOps = <<"checkout", "pull", "delete_branch">>

CreateStarts == pc = "start" /\ args.cmd = "create"

\* a merge_pr of this invocation has returned success
MergePrSucceeded == \E i \in 1..Len(calls) : calls[i].op = "merge_pr" /\ calls[i].ok

\* C29: in pr merge a step changes HEAD, the local branches, their upstreams
\* or runs a git operation on the local repository only after merge_pr has
\* returned success; a merge that ended without that success has made no
\* local operation.
C29_LocalChangesOnlyAfterMerge ==
    /\ [](args # <<>> /\ args.cmd = "merge" /\ ~MergePrSucceeded => localOps = <<>>)
    /\ [][args # <<>> /\ args.cmd = "merge"
            /\ (head' # head \/ branches' # branches \/ upstream' # upstream
                    \/ localOps' # localOps)
          => MergePrSucceeded]_vars

\* merge_pr itself failed and the command has ended
C29_MergeFailedWitness ==
    /\ args # <<>> /\ args.cmd = "merge" /\ pc = "done" /\ result = "RequestFailed"
    /\ calls # <<>> /\ calls[Len(calls)].op = "merge_pr" /\ ~calls[Len(calls)].ok
    /\ localOps = <<>>

\* merge_pr succeeded and the command checked out the target and deleted
\* the source branch
C29_MergedWitness ==
    /\ args # <<>> /\ args.cmd = "merge" /\ pc = "done" /\ MergePrSucceeded
    /\ Len(localOps) = 3 /\ localOps[3] = "delete_branch"

\* C23 as claimed: pr create on a branch without upstream pushes and goes on
\* with the branch name as source when there is exactly one remote, and with
\* no remote or several remotes fails without a push; on a branch with an
\* upstream it does not push.
C23_AsClaimed ==
    [][CreateStarts =>
        /\ (selected_branch \notin upstream /\ Len(remotes) # 1) =>
              pc' = "done" /\ result' # "Ok" /\ localOps' = localOps /\ calls' = calls
        /\ (selected_branch \notin upstream /\ Len(remotes) = 1 /\ pc' # "done") =>
              localOps' = <<"push">> /\ remoteBranch' = selected_branch
        /\ selected_branch \in upstream => localOps' = localOps]_vars

\* C23, as the code has it: the push goes to the first remote whenever there
\* is at least one; only with no remote at all does the command fail.
C23_PushesToFirstRemote ==
    [][CreateStarts =>
        /\ (selected_branch \notin upstream /\ remotes = <<>>) =>
              pc' = "done" /\ result' = "NoRemotes" /\ localOps' = localOps /\ calls' = calls
        /\ (selected_branch \notin upstream /\ remotes # <<>> /\ pc' # "done") =>
              localOps' = <<"push">> /\ remoteBranch' = selected_branch
        /\ selected_branch \in upstream => localOps' = localOps]_vars

\* a branch pushed although the repository has two remotes
C23_TwoRemotesWitness ==
    /\ args.cmd = "create" /\ Len(remotes) = 2 /\ localOps = <<"push">>
    /\ HasCall("create_pr")

PullExitedUnsuccessfully ==
    \E i \in 1..Len(localOps) : localOps[i] = "pull exit 1"

\* C26 as claimed: a merge or create --merge whose git pull could not start
\* or exited unsuccessfully does not end successfully.
C26_AsClaimed ==
    /\ [][(pc \in {"merge_checkout", "create_checkout"} /\ result' = "PullFailedToStart")
            => pc' = "done"]_vars
    /\ []((Done /\ PullExitedUnsuccessfully) => result # "Ok")

\* C26, as the code has it: a pull that cannot start or cannot be waited for
\* ends the command with that error at once, after the checkout.
C26_UnstartedPullFails ==
    [][(pc \in {"merge_checkout", "create_checkout"} /\ head' # head
           /\ Len(localOps') = Len(localOps) + 1)
            => pc' = "done" /\ result' \in {"PullFailedToStart", "PullFailedToEnd"}]_vars

\* a merge that ended successfully although git pull exited with an error
C26_SilentPullWitness ==
    /\ args.cmd = "merge" /\ Done /\ result = "Ok"
    /\ localOps = <<"checkout", "pull exit 1">>

CreatedWithoutTarget ==
    args.cmd = "create" /\ args.target = None /\ Done /\ result = "Ok"

C24_NoEntryWitness ==
    CreatedWithoutTarget /\ confSaved /\ conf = <<>> /\ args.auth # None






(***************************************************************************)
(* create_pr of the four adapters (specification SpecCreatePr)             *)
(***************************************************************************)
MaxReviewers == 2

Usernames == {"ann", "bob", "eve"}
\* the order in which the provider lists its accounts
UserOrder == <<"ann", "bob", "eve">>
\* the provider's identifier of an account (User.id, BitbucketUser.uuid)
UserId(u) == CASE u = "ann" -> "id-ann" [] u = "bob" -> "id-bob" [] OTHER -> "id-eve"

CreatePullRequests ==
    [target : {None, "dev"}, reviewers : SeqsUpTo(Usernames, MaxReviewers)]
AdapterSettings == [default_branch : {None, "main"}, fork : BOOLEAN]
Repositories == [default_branch : {"trunk"}, forked_from : {None, "parent"}]

CpOk == [ok |-> TRUE, err |-> "Ok", name |-> None]
CpErr(kind, name) == [ok |-> FALSE, err |-> kind, name |-> name]
CpReturn(r) == cpPc' = "done" /\ cpResult' = <<r>>
CpRequest(r) == cpHttp' = Append(cpHttp, r)
cpInputs == <<cmdVars, pgVars, stVars, fnVars, cfVars, cpAdapter, cpReq, cpSettings, cpKnown, cpRepo>>

\* pr.target = pr.target.or(settings.default_branch), else the repository's
ResolveTarget(next) ==
    /\ UNCHANGED <<cpInputs, cpCreated>>
    /\ IF cpWork.target # None
       THEN cpPc' = next /\ UNCHANGED <<cpWork, cpHttp, cpResult>>
       ELSE IF cpSettings.default_branch # None
       THEN /\ cpWork' = [cpWork EXCEPT !.target = cpSettings.default_branch]
            /\ cpPc' = next /\ UNCHANGED <<cpHttp, cpResult>>
       ELSE /\ CpRequest("GET repository")
            /\ \E ok \in BOOLEAN :
                 IF ok
                 THEN /\ cpWork' = [cpWork EXCEPT !.target = cpRepo.default_branch]
                      /\ cpPc' = next /\ UNCHANGED cpResult
                 ELSE CpReturn(CpErr("RequestFailed", None)) /\ UNCHANGED cpWork

\* if settings.fork { ... if let Some(forked) = repo.forked_from { ... } }
ResolveFork(next, sets_source) ==
    /\ UNCHANGED <<cpInputs, cpCreated>>
    /\ IF ~cpSettings.fork
       THEN cpPc' = next /\ UNCHANGED <<cpWork, cpHttp, cpResult>>
       ELSE /\ CpRequest("GET repository")
            /\ \E ok \in BOOLEAN :
                 IF ~ok
                 THEN CpReturn(CpErr("RequestFailed", None)) /\ UNCHANGED cpWork
                 ELSE /\ cpPc' = next /\ UNCHANGED cpResult
                      /\ cpWork' =
                           IF cpRepo.forked_from = None THEN cpWork
                           ELSE [cpWork EXCEPT !.project = cpRepo.forked_from,
                                               !.source_project =
                                                   IF sets_source THEN "own" ELSE @]

\* From<CreatePullRequest> of the adapter's request body: GitHub, Gitea and
\* GitLab fall back to "master", Bitbucket leaves the destination out
body_target(adapter, target) ==
    IF target = None /\ adapter # "Bitbucket" THEN "master" ELSE target

\* the branch the provider creates the pull request against: the one the
\* body names, else (Bitbucket, no destination) the repository's main branch
provider_target(submitted) ==
    IF submitted = None THEN cpRepo.default_branch ELSE submitted

\* the POST that creates the pull request, with the reviewers its body carries
PostPullRequest(path, reviewers, next) ==
    /\ UNCHANGED <<cpInputs, cpWork>>
    /\ CpRequest(path)
    /\ \E ok \in BOOLEAN :
         IF ~ok
         THEN CpReturn(CpErr("RequestFailed", None)) /\ UNCHANGED cpCreated
         ELSE /\ cpCreated' = Append(cpCreated,
                     [project |-> cpWork.project,
                      body_target |-> body_target(cpAdapter, cpWork.target),
                      target |-> provider_target(body_target(cpAdapter, cpWork.target)),
                      source_project |-> cpWork.source_project,
                      reviewers |-> reviewers])
              /\ IF next = "done" THEN CpReturn(CpOk)
                 ELSE cpPc' = next /\ UNCHANGED cpResult

\* POST .../requested_reviewers after the pull request exists; the provider
\* rejects a request naming an account it does not know
PostReviewers ==
    /\ UNCHANGED <<cpInputs, cpWork>>
    /\ CpRequest("POST requested_reviewers")
    /\ \E ok \in BOOLEAN :
         IF ok /\ \A i \in 1..Len(cpWork.reviewers) : cpWork.reviewers[i] \in cpKnown
         THEN /\ cpCreated' = [cpCreated EXCEPT ![Len(cpCreated)].reviewers =
                                                    cpWork.reviewers]
              /\ CpReturn(CpOk)
         ELSE CpReturn(CpErr("RequestFailed", None)) /\ UNCHANGED cpCreated

\* GitHub::create_pr
GitHubCreatePrTarget ==
    cpAdapter = "GitHub" /\ cpPc = "start" /\ ResolveTarget("fork")
GitHubCreatePrFork ==
    cpAdapter = "GitHub" /\ cpPc = "fork" /\ ResolveFork("post", TRUE)
GitHubCreatePrPost ==
    cpAdapter = "GitHub" /\ cpPc = "post"
    /\ PostPullRequest("POST pulls", <<>>, "reviewers")
GitHubCreatePrReviewers ==
    cpAdapter = "GitHub" /\ cpPc = "reviewers" /\ PostReviewers

\* Gitea::create_pr
GiteaCreatePrTarget ==
    cpAdapter = "Gitea" /\ cpPc = "start" /\ ResolveTarget("post")
GiteaCreatePrPost ==
    cpAdapter = "Gitea" /\ cpPc = "post"
    /\ PostPullRequest("POST pulls", <<>>, "reviewers")
GiteaCreatePrReviewers ==
    cpAdapter = "Gitea" /\ cpPc = "reviewers" /\ PostReviewers

\* GitLab::get_user_by_name for each reviewer in turn; collect() stops at the
\* first Err.  failAt is the lookup whose request fails (0: none does).
GitLabCreatePrReviewers ==
    /\ cpAdapter = "GitLab" /\ cpPc = "start"
    /\ UNCHANGED <<cpInputs, cpCreated>>
    /\ LET rs == cpWork.reviewers
           unknown == {i \in 1..Len(rs) : rs[i] \notin cpKnown}
           stop == IF unknown = {} THEN Len(rs) + 1
                   ELSE CHOOSE i \in unknown : \A j \in unknown : i <= j
           lookups(n) == cpHttp \o [i \in 1..n |-> "GET users"]
       IN \E failAt \in 0..Len(rs) :
            IF failAt # 0 /\ failAt <= stop
            THEN /\ cpHttp' = lookups(failAt)
                 /\ CpReturn(CpErr("RequestFailed", None)) /\ UNCHANGED cpWork
            ELSE IF unknown # {}
            THEN /\ cpHttp' = lookups(stop)
                 /\ CpReturn(CpErr("UserNotFound", rs[stop])) /\ UNCHANGED cpWork
            ELSE /\ cpHttp' = lookups(Len(rs))
                 /\ cpWork' = [cpWork EXCEPT !.reviewers =
                                   [i \in 1..Len(rs) |-> UserId(rs[i])]]
                 /\ cpPc' = "target" /\ UNCHANGED cpResult
GitLabCreatePrTarget ==
    cpAdapter = "GitLab" /\ cpPc = "target" /\ ResolveTarget("fork")
GitLabCreatePrFork ==
    cpAdapter = "GitLab" /\ cpPc = "fork" /\ ResolveFork("post", FALSE)
GitLabCreatePrPost ==
    cpAdapter = "GitLab" /\ cpPc = "post"
    /\ PostPullRequest("POST merge_requests", cpWork.reviewers, "done")

\* Bitbucket::get_workspace_users: the workspace's members whose nickname is
\* among the usernames
get_workspace_users(usernames) ==
    LET members == SelectSeq(UserOrder, LAMBDA u : u \in cpKnown)
        wanted(u) == \E i \in 1..Len(usernames) : usernames[i] = u
    IN  SelectSeq(members, wanted)

\* Bitbucket::create_pr
BitbucketCreatePrReviewers ==
    /\ cpAdapter = "Bitbucket" /\ cpPc = "start"
    /\ UNCHANGED <<cpInputs, cpCreated>>
    /\ CpRequest("GET members")
    /\ \E ok \in BOOLEAN :
         IF ~ok
         THEN CpReturn(CpErr("RequestFailed", None)) /\ UNCHANGED cpWork
         ELSE LET users == get_workspace_users(cpWork.reviewers)
              IN  /\ cpWork' = [cpWork EXCEPT !.reviewers =
                                    [i \in 1..Len(users) |-> UserId(users[i])]]
                  /\ cpPc' = "fork" /\ UNCHANGED cpResult
BitbucketCreatePrFork ==
    cpAdapter = "Bitbucket" /\ cpPc = "fork" /\ ResolveFork("post", TRUE)
BitbucketCreatePrPost ==
    cpAdapter = "Bitbucket" /\ cpPc = "post"
    /\ PostPullRequest("POST pullrequests", cpWork.reviewers, "done")

\* an adapter as init_vcs built it, a request as pr create filled it in, and
\* the accounts and the repository the provider holds
InitCreatePr ==
    /\ IdleCommand /\ IdlePaginated /\ IdleState /\ IdleFn /\ IdleConfig
    /\ cpAdapter \in Adapters
    /\ cpReq \in CreatePullRequests
    /\ cpSettings \in AdapterSettings
    /\ cpKnown \in SUBSET Usernames
    /\ cpRepo \in Repositories
    /\ cpWork = [reviewers |-> cpReq.reviewers, target |-> cpReq.target,
                 project |-> "own", source_project |-> None]
    /\ cpPc = "start" /\ cpHttp = <<>> /\ cpCreated = <<>> /\ cpResult = <<>>

NextCreatePr ==
    \/ GitHubCreatePrTarget \/ GitHubCreatePrFork \/ GitHubCreatePrPost
    \/ GitHubCreatePrReviewers
    \/ GiteaCreatePrTarget \/ GiteaCreatePrPost \/ GiteaCreatePrReviewers
    \/ GitLabCreatePrReviewers \/ GitLabCreatePrTarget \/ GitLabCreatePrFork
    \/ GitLabCreatePrPost
    \/ BitbucketCreatePrReviewers \/ BitbucketCreatePrFork \/ BitbucketCreatePrPost

SpecCreatePr == InitCreatePr /\ [][NextCreatePr]_vars

(***************************************************************************)
(* Properties of create_pr (specification SpecCreatePr)                    *)
(***************************************************************************)
CpDone == cpPc = "done"
CpUnresolved ==
    {cpReq.reviewers[i] : i \in {j \in 1..Len(cpReq.reviewers) :
                                     cpReq.reviewers[j] \notin cpKnown}}
\* what the adapter submits for a username
CpSubmittedAs(u) == IF cpAdapter \in {"GitHub", "Gitea"} THEN u ELSE UserId(u)

\* C6 as claimed: in every adapter, create_pr with a reviewer username the
\* provider cannot resolve leaves no pull request on the remote and returns
\* an error.
C6_AsClaimed ==
    CpUnresolved # {} =>
        /\ cpCreated = <<>>
        /\ CpDone => ~cpResult[1].ok

\* C7 as claimed: the reviewer resolution of Bitbucket and GitLab never drops
\* a requested reviewer silently: a create_pr that returns Ok has submitted
\* every requested reviewer, and one with an unresolved username has failed
\* with an error (the user-not-found error names an unresolved username).
C7_AsClaimed ==
    (cpAdapter \in {"Bitbucket", "GitLab"} /\ CpDone) =>
        /\ cpResult[1].ok =>
              /\ cpCreated # <<>>
              /\ \A i \in 1..Len(cpReq.reviewers) :
                   \E j \in 1..Len(cpCreated[1].reviewers) :
                       cpCreated[1].reviewers[j] = CpSubmittedAs(cpReq.reviewers[i])
        /\ CpUnresolved # {} =>
              /\ ~cpResult[1].ok
              /\ cpResult[1].err = "UserNotFound" => cpResult[1].name \in CpUnresolved

\* explicit target, else cached default branch, else the repository's
CpExpectedTarget ==
    IF cpReq.target # None THEN cpReq.target
    ELSE IF cpSettings.default_branch # None THEN cpSettings.default_branch
    ELSE cpRepo.default_branch

CpRepositoryFetches ==
    Cardinality({i \in 1..Len(cpHttp) : cpHttp[i] = "GET repository"})

\* C21 as claimed: in every adapter the pull request is created against the
\* explicit target, else the cached default branch, else the default branch
\* of the fetched repository; the repository is fetched for the target only
\* when both are absent; "master" is never submitted.
C21_AsClaimed ==
    /\ \A i \in 1..Len(cpCreated) :
         /\ cpCreated[i].target = CpExpectedTarget
         /\ cpCreated[i].body_target # "master"
    /\ (cpReq.target # None \/ cpSettings.default_branch # None) =>
         CpRepositoryFetches <= (IF cpSettings.fork THEN 1 ELSE 0)

\* C21 for GitHub, Gitea and GitLab, whose create_pr resolves the target
C21_ResolvingAdapters ==
    cpAdapter # "Bitbucket" =>
        /\ \A i \in 1..Len(cpCreated) :
             /\ cpCreated[i].target = CpExpectedTarget
             /\ cpCreated[i].body_target = CpExpectedTarget
        /\ (cpReq.target # None \/ cpSettings.default_branch # None) =>
             CpRepositoryFetches <= (IF cpSettings.fork /\ cpAdapter # "Gitea" THEN 1 ELSE 0)
        /\ (cpReq.target = None /\ cpSettings.default_branch = None /\ cpCreated # <<>>) =>
             CpRepositoryFetches >= 1

\* Bitbucket submitting no destination although a default branch is cached
C21_BitbucketWitness ==
    /\ cpAdapter = "Bitbucket" /\ cpReq.target = None
    /\ cpSettings.default_branch = "main" /\ cpCreated # <<>>
    /\ cpCreated[1].body_target = None /\ cpCreated[1].target = "trunk"

\* the fork named as the source: head_repo (GitHub), source.repository
\* (Bitbucket); GitLab posts to the fork's own merge_requests, which makes
\* the fork the source project
CpForkIsSource(c) == c.source_project = "own" \/ cpAdapter = "GitLab"

\* C22 as claimed: in every adapter, with the fork flag set and a parent
\* present the pull request is created against the parent with the fork as
\* its source, and otherwise against the repository itself.
C22_AsClaimed ==
    \A i \in 1..Len(cpCreated) :
        IF cpSettings.fork /\ cpRepo.forked_from # None
        THEN cpCreated[i].project = cpRepo.forked_from /\ CpForkIsSource(cpCreated[i])
        ELSE cpCreated[i].project = "own"

\* C22 for GitHub, GitLab and Bitbucket, whose create_pr reads the fork flag
C22_ForkAwareAdapters ==
    cpAdapter # "Gitea" =>
        \A i \in 1..Len(cpCreated) :
            IF cpSettings.fork /\ cpRepo.forked_from # None
            THEN cpCreated[i].project = cpRepo.forked_from /\ CpForkIsSource(cpCreated[i])
            ELSE cpCreated[i].project = "own" /\ cpCreated[i].source_project = None

\* Gitea creating the pull request in the fork itself
C22_GiteaWitness ==
    /\ cpAdapter = "Gitea" /\ cpSettings.fork /\ cpRepo.forked_from = "parent"
    /\ cpCreated # <<>> /\ cpCreated[1].project = "own"



(***************************************************************************)
(* call_paginated of Gitea and Bitbucket (specification SpecPaginated)     *)
(***************************************************************************)
MaxPages == 3
MaxPageLen == 1

Items == {"a", "b"}
\* a page as the server holds it: its values and whether it announces a
\* following page (Bitbucket's `next`; the Gitea helper never sees it)
Pages == [values : SeqsUpTo(Items, MaxPageLen), next : BOOLEAN]
EmptyPage == [values |-> <<>>, next |-> FALSE]
\* the response to ?page=i; past its last page the server answers an empty page
ServedPage(i) == IF i <= Len(pgServer) THEN pgServer[i] ELSE EmptyPage

append_in_front(collected_values, page) == page.values \o collected_values
\* collected_values.append(&mut page)
append(collected_values, page) == collected_values \o page.values
\* if page.is_empty() { break; }
gitea_breaks(page) == page.values = <<>>
bitbucket_breaks_on_empty(page) == page.values = <<>>
\* if page.next.is_none() { break; }
bitbucket_breaks(page) == ~page.next

pgInputs == <<cmdVars, cpVars, stVars, fnVars, cfVars, pgAdapter, pgServer, pgFailAt>>

\* one turn of the loop of Gitea::call_paginated
GiteaCallPaginated ==
    /\ pgAdapter = "Gitea" /\ pgResult = None
    /\ UNCHANGED pgInputs
    /\ pgRequests' = pgRequests + 1
    /\ IF pgFailAt = pgRequests + 1
       THEN pgResult' = "RequestFailed" /\ UNCHANGED <<pgI, pgCollected, pgLastPage>>
       ELSE LET page == ServedPage(pgI)
            IN  /\ pgLastPage' = <<page>>
                /\ IF gitea_breaks(page)
                   THEN pgResult' = "Ok" /\ UNCHANGED <<pgI, pgCollected>>
                   ELSE /\ pgCollected' = append(pgCollected, page)
                        /\ pgI' = pgI + 1
                        /\ UNCHANGED pgResult

\* one turn of the loop of Bitbucket::call_paginated
BitbucketCallPaginated ==
    /\ pgAdapter = "Bitbucket" /\ pgResult = None
    /\ UNCHANGED pgInputs
    /\ pgRequests' = pgRequests + 1
    /\ IF pgFailAt = pgRequests + 1
       THEN pgResult' = "RequestFailed" /\ UNCHANGED <<pgI, pgCollected, pgLastPage>>
       ELSE LET page == ServedPage(pgI)
            IN  /\ pgLastPage' = <<page>>
                /\ pgCollected' = append(pgCollected, page)
                /\ IF bitbucket_breaks(page)
                   THEN pgResult' = "Ok" /\ UNCHANGED pgI
                   ELSE pgI' = pgI + 1 /\ UNCHANGED pgResult

\* a helper about to read page 1 of a server's pages; pgFailAt is the request
\* that fails (0: none does)
InitPaginated ==
    /\ IdleCommand /\ IdleCreatePr /\ IdleState /\ IdleFn /\ IdleConfig
    /\ pgAdapter \in {"Gitea", "Bitbucket"}
    /\ pgServer \in SeqsUpTo(Pages, MaxPages)
    /\ pgFailAt \in 0..(MaxPages + 1)
    /\ pgI = 1 /\ pgCollected = <<>> /\ pgRequests = 0
    /\ pgLastPage = <<>> /\ pgResult = None

NextPaginated == GiteaCallPaginated \/ BitbucketCallPaginated

SpecPaginated == InitPaginated /\ [][NextPaginated]_vars

(***************************************************************************)
(* Properties of call_paginated (specification SpecPaginated)              *)
(***************************************************************************)
RECURSIVE Concatenation(_)
\* the values of the first n pages of the server, in page order
Concatenation(n) ==
    IF n = 0 THEN <<>> ELSE Concatenation(n - 1) \o pgServer[n].values

\* the server holds [p1, ..., pn, empty]: n pages of values, then an empty one
PgDataThenEmpty ==
    /\ pgServer # <<>>
    /\ pgServer[Len(pgServer)].values = <<>>
    /\ \A i \in 1..(Len(pgServer) - 1) : pgServer[i].values # <<>>
\* and every page but the last announces its successor
PgLinked ==
    /\ ~pgServer[Len(pgServer)].next
    /\ \A i \in 1..(Len(pgServer) - 1) : pgServer[i].next
PgReturnsAll ==
    pgResult = "Ok" =>
        /\ pgCollected = Concatenation(Len(pgServer) - 1)
        /\ pgRequests = Len(pgServer)

RECURSIVE FirstBreak(_, _)
FirstBreak(breaks(_), i) ==
    IF breaks(ServedPage(i)) THEN i ELSE FirstBreak(breaks, i + 1)
PgEmpty(page) == page.values = <<>>
PgNoNext(page) == ~page.next
PgEmptyOrNoNext(page) == PgEmpty(page) \/ PgNoNext(page)
PgStopsAt(stop) ==
    /\ pgRequests <= stop
    /\ pgResult = "Ok" => pgRequests = stop /\ pgLastPage = <<ServedPage(stop)>>
    /\ pgResult = "RequestFailed" => pgRequests = pgFailAt /\ pgFailAt <= stop

\* C9 as claimed: either helper stops at the first page that is empty or
\* carries no next link, issuing no request after it; a failed request ends
\* the loop with the error.
C9_AsClaimed == PgStopsAt(FirstBreak(PgEmptyOrNoNext, 1))

\* C9, amended: the Gitea helper stops at the first empty page and the
\* Bitbucket helper at the first page that carries no next link: it issues no
\* request after that page and returns Ok, and a request that fails before
\* then ends the loop with that error, so the requests never outnumber the
\* pages up to that one.
C9_StopsAtOwnBreakPage ==
    IF pgAdapter = "Gitea" THEN PgStopsAt(FirstBreak(PgEmpty, 1))
    ELSE PgStopsAt(FirstBreak(PgNoNext, 1))

C9_Witness ==
    /\ pgAdapter = "Bitbucket" /\ pgResult = "Ok" /\ pgRequests = 2
    /\ Len(pgServer) = 3 /\ pgServer[1].values = <<>> /\ pgServer[1].next
    /\ ~pgServer[2].next

C9_FailureWitness ==
    /\ pgAdapter = "Gitea" /\ pgResult = "RequestFailed" /\ pgRequests = 2
    /\ Len(pgServer) = 3 /\ \A i \in 1..3 : pgServer[i].values # <<>>


(***************************************************************************)
(* Pull request state of the four adapters (specification SpecState)       *)
(***************************************************************************)
MaxTime == 2

\* the pull request as the backend's JSON reports it.  serde keeps the fields
\* the adapter's struct declares: GiteaPullRequest declares no lock field, and
\* the GitLab and Bitbucket structs take the state as one enum.
WirePullRequests(adapter) ==
    IF adapter \in {"GitHub", "Gitea"}
    THEN [number : PrIds, state : {"open", "closed"},
          merged_at : {<<>>} \cup {<<t>> : t \in 1..MaxTime}, locked : BOOLEAN]
    ELSE [number : PrIds,
          state : IF adapter = "GitLab"
                  THEN {"opened", "closed", "merged", "locked"}
                  ELSE {"OPEN", "DECLINED", "MERGED", "LOCKED"},
          merged_at : {<<>>}, locked : {FALSE}]

\* impl From<GitHubPullRequest> for PullRequest: match (state, merged_at, locked)
GitHubState(w) ==
    IF w.locked THEN "Locked"
    ELSE IF w.state = "open" THEN "Open"
    ELSE IF w.merged_at # <<>> THEN "Merged"
    ELSE "Closed"
\* impl From<GiteaPullRequest> for PullRequest: match (state, merged_at)
GiteaState(w) ==
    IF w.state = "open" THEN "Open"
    ELSE IF w.merged_at # <<>> THEN "Merged"
    ELSE "Closed"
\* impl From<GitLabPullRequestState> for PullRequestState
GitLabState(w) ==
    CASE w.state = "opened" -> "Open" [] w.state = "closed" -> "Closed"
      [] w.state = "merged" -> "Merged" [] OTHER -> "Locked"
\* impl From<BitbucketPullRequestState> for PullRequestState
BitbucketState(w) ==
    CASE w.state = "OPEN" -> "Open" [] w.state = "DECLINED" -> "Closed"
      [] w.state = "MERGED" -> "Merged" [] OTHER -> "Locked"

stReturn(state) ==
    /\ stOut' = <<[id |-> stWire.number, state |-> state]>>
    /\ UNCHANGED <<cmdVars, cpVars, pgVars, fnVars, cfVars, stAdapter, stWire>>
GitHubFrom ==
    /\ stAdapter = "GitHub" /\ stOut = <<>>
    /\ stReturn(GitHubState(stWire))
GiteaFrom ==
    /\ stAdapter = "Gitea" /\ stOut = <<>>
    /\ stReturn(GiteaState(stWire))
GitLabFrom ==
    /\ stAdapter = "GitLab" /\ stOut = <<>>
    /\ stReturn(GitLabState(stWire))
BitbucketFrom ==
    /\ stAdapter = "Bitbucket" /\ stOut = <<>>
    /\ stReturn(BitbucketState(stWire))

\* a pull request received from the backend, about to be converted
InitState ==
    /\ IdleCommand /\ IdleCreatePr /\ IdlePaginated /\ IdleFn /\ IdleConfig
    /\ stAdapter \in Adapters
    /\ stWire \in WirePullRequests(stAdapter)
    /\ stOut = <<>>

NextState == GitHubFrom \/ GiteaFrom \/ GitLabFrom \/ BitbucketFrom

SpecState == InitState /\ [][NextState]_vars

(***************************************************************************)
(* Properties of the state conversion (specification SpecState)            *)
(***************************************************************************)
\* C10 as claimed: a GitHub or Gitea pull request converts to Locked if the
\* backend reports it locked, otherwise to Open if its state is open,
\* otherwise to Merged if its merged timestamp is set, otherwise to Closed.
C10_AsClaimed ==
    (stAdapter \in {"GitHub", "Gitea"} /\ stOut # <<>>) =>
        stOut[1].state =
            IF stWire.locked THEN "Locked"
            ELSE IF stWire.state = "open" THEN "Open"
            ELSE IF stWire.merged_at # <<>> THEN "Merged"
            ELSE "Closed"


CanonicalStates == {"Open", "Closed", "Merged", "Locked"}
\* the canonical state an adapter gives a backend pull request
StateOf(adapter, w) ==
    CASE adapter = "GitHub" -> GitHubState(w)
      [] adapter = "Gitea" -> GiteaState(w)
      [] adapter = "GitLab" -> GitLabState(w)
      [] OTHER -> BitbucketState(w)
\* a canonical state written in an adapter's backend representation
Express(adapter, c) ==
    IF adapter \in {"GitHub", "Gitea"}
    THEN [number |-> 1,
          state |-> IF c = "Open" THEN "open" ELSE "closed",
          merged_at |-> IF c = "Merged" THEN <<1>> ELSE <<>>,
          locked |-> (c = "Locked")]
    ELSE [number |-> 1,
          state |-> IF adapter = "GitLab"
                    THEN (CASE c = "Open" -> "opened" [] c = "Closed" -> "closed"
                            [] c = "Merged" -> "merged" [] OTHER -> "locked")
                    ELSE (CASE c = "Open" -> "OPEN" [] c = "Closed" -> "DECLINED"
                            [] c = "Merged" -> "MERGED" [] OTHER -> "LOCKED"),
          merged_at |-> <<>>, locked |-> FALSE]

\* C11 as claimed: the conversion of every backend pull request yields one of
\* the four canonical states, and in every adapter each canonical state,
\* written in the adapter's backend representation and converted again,
\* yields that same state.
C11_AsClaimed ==
    stOut # <<>> =>
        /\ stOut[1].state \in CanonicalStates
        /\ \A c \in CanonicalStates : StateOf(stAdapter, Express(stAdapter, c)) = c

\* C11, what holds: every adapter's conversion is total, and the round trip
\* is stable for GitHub, GitLab and Bitbucket, and for Gitea on the states
\* other than Locked.
C11_TotalAndStableButGiteaLocked ==
    stOut # <<>> =>
        /\ stOut[1].state \in CanonicalStates
        /\ stOut[1].state = StateOf(stAdapter, stWire)
        /\ \A c \in CanonicalStates :
             (stAdapter = "Gitea" /\ c = "Locked")
             \/ StateOf(stAdapter, Express(stAdapter, c)) = c


(***************************************************************************)
(* list_prs of the four adapters (specification SpecListPrs)               *)
(***************************************************************************)
MaxHeld == 2

SetsUpTo(S, n) == {T \in SUBSET S : Cardinality(T) <= n}

\* vcs::common::ListPullRequestFilters
ListPullRequestFilters ==
    [author : {"Me", "All"}, state : {"Open", "Closed", "Merged", "Locked", "All"}]

\* a pull request the backend holds: its JSON and whether the caller wrote it
BackendPrs(adapter) ==
    [wire : {w \in WirePullRequests(adapter) : w.number = 1}, mine : BOOLEAN]

\* GitHub::list_prs: match filters.state
GitHubListState(state) ==
    CASE state = "Open" -> "open"
      [] state \in {"Closed", "Merged", "Locked"} -> "closed"
      [] OTHER -> "all"
\* Gitea::list_prs: match filters.state
GiteaListState(state) ==
    CASE state = "Open" -> "open"
      [] state \in {"Closed", "Merged", "Locked"} -> "closed"
      [] OTHER -> "all"
\* GitLab::list_prs: match filters.author
GitLabListScope(author) == IF author = "All" THEN "all" ELSE "created_by_me"
\* GitLab::list_prs: match filters.state
GitLabListState(state) ==
    CASE state = "Open" -> "opened" [] state = "Closed" -> "closed"
      [] state = "Merged" -> "merged" [] state = "Locked" -> "locked"
      [] OTHER -> None
\* Bitbucket::list_prs: match filters.state
BitbucketListState(state) ==
    CASE state = "Open" -> "OPEN" [] state = "Closed" -> "DECLINED"
      [] state = "Merged" -> "MERGED" [] OTHER -> None

\* the backend's answer to ?state=..&scope=..: a parameter that is absent or
\* "all" selects everything, any other selects the pull requests in that
\* backend state (written by the caller, for scope=created_by_me)
BackendSelects(query, p) ==
    /\ query.state \in {None, "all"} \/ p.wire.state = query.state
    /\ query.scope \in {None, "all"} \/ p.mine

\* let prs = self.call("GET", ..)?; Ok(prs.into_iter().map(|pr| pr.into()).collect())
ListPrs(adapter, query) ==
    /\ fnCall # <<>> /\ fnCall.name = "list_prs" /\ fnCall.adapter = adapter
    /\ fnResult = <<>>
    /\ UNCHANGED <<cmdVars, cpVars, pgVars, stVars, cfVars, fnCall>>
    /\ \E ok \in BOOLEAN :
         fnResult' =
            <<[ok |-> ok, query |-> query,
               prs |-> IF ok
                       THEN {[pr |-> p, state |-> StateOf(adapter, p.wire)] :
                                p \in {h \in fnCall.held : BackendSelects(query, h)}}
                       ELSE {}]>>

GitHubListPrs ==
    /\ fnCall # <<>> /\ fnCall.name = "list_prs"
    /\ ListPrs("GitHub", [state |-> GitHubListState(fnCall.filters.state), scope |-> None])
GiteaListPrs ==
    /\ fnCall # <<>> /\ fnCall.name = "list_prs"
    /\ ListPrs("Gitea", [state |-> GiteaListState(fnCall.filters.state), scope |-> None])
GitLabListPrs ==
    /\ fnCall # <<>> /\ fnCall.name = "list_prs"
    /\ ListPrs("GitLab", [state |-> GitLabListState(fnCall.filters.state),
                          scope |-> GitLabListScope(fnCall.filters.author)])
BitbucketListPrs ==
    /\ fnCall # <<>> /\ fnCall.name = "list_prs"
    /\ ListPrs("Bitbucket", [state |-> BitbucketListState(fnCall.filters.state),
                             scope |-> None])

\* an adapter asked to list, and the pull requests its backend holds
InitListPrs ==
    /\ IdleCommand /\ IdleCreatePr /\ IdlePaginated /\ IdleState /\ IdleConfig
    /\ \E a \in Adapters :
         fnCall \in [name : {"list_prs"}, adapter : {a},
                     filters : ListPullRequestFilters,
                     held : SetsUpTo(BackendPrs(a), MaxHeld)]
    /\ fnResult = <<>>

NextListPrs == GitHubListPrs \/ GiteaListPrs \/ GitLabListPrs \/ BitbucketListPrs

SpecListPrs == InitListPrs /\ [][NextListPrs]_vars

(***************************************************************************)
(* Properties of list_prs (specification SpecListPrs)                      *)
(***************************************************************************)
\* the held pull request p matches the canonical filters
MatchesFilters(adapter, filters, p) ==
    /\ filters.author = "All" \/ p.mine
    /\ filters.state = "All" \/ StateOf(adapter, p.wire) = filters.state

\* C12 as claimed: in every adapter and for every filter value, a list_prs
\* that returns has received from the backend every held pull request that
\* matches the requested canonical filter.
C12_AsClaimed ==
    (fnResult # <<>> /\ fnResult[1].ok) =>
        \A p \in fnCall.held :
            MatchesFilters(fnCall.adapter, fnCall.filters, p) =>
                \E r \in fnResult[1].prs : r.pr = p

\* C12, what holds: the same, except for the state filter Locked on GitHub,
\* where only the locked pull requests whose backend state is closed are
\* received.
C12_SupersetButGitHubLocked ==
    (fnResult # <<>> /\ fnResult[1].ok) =>
        \A p \in fnCall.held :
            (/\ MatchesFilters(fnCall.adapter, fnCall.filters, p)
             /\ ~(/\ fnCall.adapter = "GitHub" /\ fnCall.filters.state = "Locked"
                  /\ p.wire.state = "open")) =>
                \E r \in fnResult[1].prs : r.pr = p


(***************************************************************************)
(* init_vcs (specification SpecInitVcs)                                    *)
(***************************************************************************)
\* hostnames of remotes: the three init_vcs knows, and others
RemoteHostnames ==
    {"github.com", "gitlab.com", "bitbucket.org", "gitea.com", "git.example.org",
     "GitHub.com", "www.github.com"}
\* what --type at login may have stored
VcsTypes == {"github", "gitlab", "bitbucket", "gitea", "space", "GitHub", ""}

InitVcs ==
    /\ fnCall # <<>> /\ fnCall.name = "init_vcs" /\ fnResult = <<>>
    /\ fnResult' = <<init_vcs(fnCall.hostname, fnCall.settings)>>
    /\ UNCHANGED <<cmdVars, cpVars, pgVars, stVars, cfVars, fnCall>>

InitInitVcs ==
    /\ IdleCommand /\ IdleCreatePr /\ IdlePaginated /\ IdleState /\ IdleConfig
    /\ fnCall \in [name : {"init_vcs"}, hostname : RemoteHostnames,
                   settings : [auth : {"token"}, vcs_type : VcsTypes \cup {None},
                               default_branch : {None}]]
    /\ fnResult = <<>>

NextInitVcs == InitVcs

SpecInitVcs == InitInitVcs /\ [][NextInitVcs]_vars

\* C13: init_vcs with an explicit provider type returns the adapter of that
\* type whatever the hostname (github, gitlab, bitbucket, gitea), and the
\* unknown-type error for any other type even on a well-known hostname; with
\* no type set it returns the adapter of github.com, gitlab.com or
\* bitbucket.org, and the type-undetected error for every other hostname.
C13_TypeThenHostname ==
    fnResult # <<>> =>
        LET t == fnCall.settings.vcs_type
            h == fnCall.hostname
        IN  /\ t = "github" => fnResult[1] = "GitHub"
            /\ t = "gitlab" => fnResult[1] = "GitLab"
            /\ t = "bitbucket" => fnResult[1] = "Bitbucket"
            /\ t = "gitea" => fnResult[1] = "Gitea"
            /\ t \notin {None, "github", "gitlab", "bitbucket", "gitea"}
                   => fnResult[1] = "ServerTypeNotFound"
            /\ (t = None /\ h = "github.com") => fnResult[1] = "GitHub"
            /\ (t = None /\ h = "gitlab.com") => fnResult[1] = "GitLab"
            /\ (t = None /\ h = "bitbucket.org") => fnResult[1] = "Bitbucket"
            /\ (t = None /\ h \notin {"github.com", "gitlab.com", "bitbucket.org"})
                   => fnResult[1] = "ServerTypeUndetected"

C13_Witness ==
    /\ fnCall # <<>> /\ fnCall.name = "init_vcs"
    /\ fnCall.hostname = "github.com" /\ fnCall.settings.vcs_type = "space"
    /\ fnResult = <<"ServerTypeNotFound">>

(***************************************************************************)
(* call of the four adapters (specification SpecCall)                      *)
(***************************************************************************)
\* the type T a call deserializes into: () or a struct of the adapter
CallTypes == {"unit", "struct"}

\* response bodies: empty, JSON null, a JSON object with T's fields, not JSON
Bodies == {"", "null", "object", "html"}

\* settings.auth as characters: user:password, a bare token, a leading colon
AuthStrings == {<<"u", ":", "p">>, <<"t", "k">>, <<":", "p">>}

\* str::split_once: Some((before, after)) of the first delimiter, or None
split_once(s, c) ==
    IF \A i \in 1..Len(s) : s[i] # c THEN <<>>
    ELSE LET i == CHOOSE k \in 1..Len(s) :
                    s[k] = c /\ \A j \in 1..(k - 1) : s[j] # c
         IN  <<[left |-> SubSeq(s, 1, i - 1), right |-> SubSeq(s, i + 1, Len(s))]>>

\* what ureq returns for one request: Ok(response), Err(Error::Status(code,
\* response)) or Err(Error::Transport(_)); readable is whether
\* response.into_string() succeeds
UreqResults ==
    [kind : {"Ok"}, status : {200, 204}, body : Bodies, readable : BOOLEAN]
    \cup [kind : {"Status"}, status : {404, 500}, body : Bodies, readable : BOOLEAN]
    \cup {[kind |-> "Transport", status |-> 0, body |-> "", readable |-> FALSE]}

CallOk(t) == [ok |-> TRUE, err |-> None, detail |-> t]
CallErr(e, t) == [ok |-> FALSE, err |-> e, detail |-> t]

\* serde_json::from_str::<T>: () reads null only, a struct reads its object
from_str(t, T) ==
    IF (T = "unit" /\ t = "null") \/ (T = "struct" /\ t = "object")
    THEN CallOk(t)
    ELSE CallErr("Deserialize", None)

\* a slip: a status error is reported as a transport failure
match_result_status_as_transport(o, T, empty_is_null) ==
    CASE o.kind = "Transport" -> CallErr("SendingDataFailed", None)
      [] o.kind = "Status" -> CallErr("SendingDataFailed", None)
      [] ~o.readable -> CallErr("Io", None)
      [] OTHER -> from_str(IF empty_is_null /\ o.body = "" THEN "null" ELSE o.body, T)

\* "match result { .. }" of call: the three arms, with into_string()? in two
match_result(o, T, empty_is_null) ==
    CASE o.kind = "Transport" -> CallErr("SendingDataFailed", None)
      [] ~o.readable -> CallErr("Io", None)
      [] o.kind = "Status" -> CallErr("RequestFailed", o.body)
      [] OTHER -> from_str(IF empty_is_null /\ o.body = "" THEN "null" ELSE o.body, T)

\* one request sent and its result matched
CallOnce(empty_is_null) ==
    \E o \in UreqResults :
        fnResult' = <<[requests |-> 1, outcome |-> <<o>>,
                       ret |-> match_result(o, fnCall.T, empty_is_null)]>>

callInputs == <<cmdVars, cpVars, pgVars, stVars, cfVars, fnCall>>

GitHubCall ==
    /\ fnCall # <<>> /\ fnCall.name = "call" /\ fnCall.adapter = "GitHub"
    /\ fnResult = <<>>
    /\ CallOnce(TRUE)
    /\ UNCHANGED callInputs

GitLabCall ==
    /\ fnCall # <<>> /\ fnCall.name = "call" /\ fnCall.adapter = "GitLab"
    /\ fnResult = <<>>
    /\ CallOnce(FALSE)
    /\ UNCHANGED callInputs

GiteaCall ==
    /\ fnCall # <<>> /\ fnCall.name = "call" /\ fnCall.adapter = "Gitea"
    /\ fnResult = <<>>
    /\ CallOnce(TRUE)
    /\ UNCHANGED callInputs

\* the token is split into username and password before the request is built
BitbucketCall ==
    /\ fnCall # <<>> /\ fnCall.name = "call" /\ fnCall.adapter = "Bitbucket"
    /\ fnResult = <<>>
    /\ IF split_once(fnCall.auth, ":") = <<>>
       THEN fnResult' = <<[requests |-> 0, outcome |-> <<>>,
                           ret |-> CallErr("AuthFormat", None)]>>
       ELSE CallOnce(TRUE)
    /\ UNCHANGED callInputs

InitCall ==
    /\ IdleCommand /\ IdleCreatePr /\ IdlePaginated /\ IdleState /\ IdleConfig
    /\ fnCall \in [name : {"call"}, adapter : Adapters, T : CallTypes,
                   auth : AuthStrings]
    /\ fnResult = <<>>

NextCall == GitHubCall \/ GitLabCall \/ GiteaCall \/ BitbucketCall

SpecCall == InitCall /\ [][NextCall]_vars

\* whether the text the adapter hands to serde_json is a T
Deserializes(adapter, o, T) ==
    LET t == IF adapter # "GitLab" /\ o.body = "" THEN "null" ELSE o.body
    IN  (T = "unit" /\ t = "null") \/ (T = "struct" /\ t = "object")

\* C15, as claimed: every call issues exactly one request and ends with the
\* value, the request-failed error carrying the body (non-2xx response), the
\* transport error, or the deserialization error.
C15_AsClaimed ==
    fnResult # <<>> =>
        LET r == fnResult[1]
        IN  /\ r.requests = 1
            /\ r.ret.ok \/ r.ret.err \in {"RequestFailed", "SendingDataFailed", "Deserialize"}
            /\ r.outcome[1].kind = "Status"
                   => r.ret.err = "RequestFailed" /\ r.ret.detail = r.outcome[1].body

\* C15: a call issues at most one request, and none only in Bitbucket's call
\* when the token has no colon (its own error); with the request made, a
\* transport failure gives the transport error, an unreadable body the I/O
\* error, a status error with a readable body the request-failed error
\* carrying that body, a success body that is not a T the deserialization
\* error, and only a success body that is a T gives a value; the five error
\* kinds differ from one another.
C15_AtMostOneRequestDistinctErrors ==
    fnResult # <<>> =>
        LET r == fnResult[1]
            bad_auth == fnCall.adapter = "Bitbucket" /\ ":" \notin {fnCall.auth[i] : i \in 1..Len(fnCall.auth)}
        IN  /\ r.requests \in {0, 1}
            /\ (r.requests = 0) <=> bad_auth
            /\ bad_auth => ~r.ret.ok /\ r.ret.err = "AuthFormat"
            /\ r.requests = 1 =>
                LET o == r.outcome[1]
                IN  /\ o.kind = "Transport" => r.ret = CallErr("SendingDataFailed", None)
                    /\ (o.kind # "Transport" /\ ~o.readable) => r.ret = CallErr("Io", None)
                    /\ (o.kind = "Status" /\ o.readable) => r.ret = CallErr("RequestFailed", o.body)
                    /\ (o.kind = "Ok" /\ o.readable /\ ~Deserializes(fnCall.adapter, o, fnCall.T))
                           => r.ret = CallErr("Deserialize", None)
                    /\ r.ret.ok <=> (o.kind = "Ok" /\ o.readable
                                     /\ Deserializes(fnCall.adapter, o, fnCall.T))

\* a status error whose body came back inside the request-failed error
C15_Witness ==
    /\ fnCall # <<>> /\ fnCall.name = "call" /\ fnResult # <<>>
    /\ fnResult[1].requests = 1 /\ fnResult[1].outcome[1].kind = "Status"
    /\ fnResult[1].outcome[1].status = 404
    /\ fnResult[1].ret = CallErr("RequestFailed", "html")

\* Bitbucket's call ending without a request
C15_NoRequestWitness ==
    /\ fnCall # <<>> /\ fnCall.name = "call" /\ fnResult # <<>>
    /\ fnResult[1].requests = 0 /\ fnResult[1].ret.err = "AuthFormat"

(***************************************************************************)
(* git::url::parse_url (specification SpecParseUrl)                        *)
(***************************************************************************)
\* strings are sequences of characters
DotGit == <<".", "g", "i", "t">>
Scheme(form) ==
    CASE form = "https" -> <<"h", "t", "t", "p", "s">>
      [] form = "http" -> <<"h", "t", "t", "p">>
      [] form = "ssh" -> <<"s", "s", "h">>
      [] form = "git" -> <<"g", "i", "t">>
      [] form = "ftp" -> <<"f", "t", "p">>
      [] form = "ftps" -> <<"f", "t", "p", "s">>

\* the parts remote URLs are made of
UrlForms == {"https", "http", "ssh", "git", "ftp", "scp", "local"}
UrlUsers == {<<>>, <<"u">>, <<"g", "i", "t">>}
UrlHosts == {<<"h">>, <<"h", ".", "c">>}
UrlPaths ==
    {<<"a", "/", "b">>,
     <<"a", "/", "b", ".", "i", "o">>,
     <<"a", "/", "b", ".", "g", "i", "t", "h", "u", "b", ".", "i", "o">>}
UrlSuffixes == {<<>>, DotGit}
\* how much of a scheme URL is there: all of it, scheme://[user@]host,
\* scheme:/ or scheme:
UrlShapes == {"whole", "no path", "one slash", "bare"}

\* scheme://[user@]host/path[.git], [user@]host:path[.git], /path[.git]
Url(form, shape, user, host, path, suffix) ==
    LET at == IF user = <<>> THEN <<>> ELSE user \o <<"@">>
    IN  CASE form = "scp" -> at \o host \o <<":">> \o path \o suffix
          [] form = "local" -> <<"/">> \o path \o suffix
          [] shape = "bare" -> Scheme(form) \o <<":">>
          [] shape = "one slash" -> Scheme(form) \o <<":", "/">>
          [] shape = "no path" -> Scheme(form) \o <<":", "/", "/">> \o at \o host
          [] OTHER -> Scheme(form) \o <<":", "/", "/">> \o at \o host \o <<"/">> \o path \o suffix

\* str::split_once with a string pattern: around its first occurrence
split_once_str(s, p) ==
    LET at(k) == k + Len(p) - 1 <= Len(s) /\ SubSeq(s, k, k + Len(p) - 1) = p
    IN  IF \A k \in 1..Len(s) : ~at(k) THEN <<>>
        ELSE LET i == CHOOSE k \in 1..Len(s) : at(k) /\ \A j \in 1..(k - 1) : ~at(j)
             IN  <<[left |-> SubSeq(s, 1, i - 1),
                    right |-> SubSeq(s, i + Len(p), Len(s))]>>

UrlOk(host, path) == [ok |-> TRUE, host |-> host, path |-> path, err |-> None]
UrlErr(e) == [ok |-> FALSE, host |-> <<>>, path |-> <<>>, err |-> e]

\* parse_url; rest[2..] of a rest shorter than two bytes panics
parse_url(url) ==
    LET colon == split_once(url, ":")
    IN  IF colon = <<>> THEN UrlErr("LocalDirectory")
        ELSE LET first == colon[1].left
                 rest == colon[1].right
                 slash == split_once(SubSeq(rest, 3, Len(rest)), "/")
             IN  IF first \in {Scheme("http"), Scheme("https"), Scheme("ssh"), Scheme("git")}
                    /\ Len(rest) < 2
                 THEN UrlErr("Panic")
                 ELSE IF first \in {Scheme("http"), Scheme("https"), Scheme("ssh"), Scheme("git")}
                    /\ slash = <<>>
                 THEN UrlErr("NoPath")
                 ELSE IF first \in {Scheme("ftp"), Scheme("ftps")}
                 THEN UrlErr("FtpNotSupported")
                 ELSE LET host == IF first \in {Scheme("http"), Scheme("https"),
                                                Scheme("ssh"), Scheme("git")}
                                  THEN slash[1].left ELSE first
                          path == IF first \in {Scheme("http"), Scheme("https"),
                                                Scheme("ssh"), Scheme("git")}
                                  THEN slash[1].right ELSE rest
                          user == split_once(host, "@")
                          git == split_once_str(path, DotGit)
                      IN  UrlOk(IF user = <<>> THEN host ELSE user[1].right,
                                IF git = <<>> THEN path ELSE git[1].left)

ParseUrl ==
    /\ fnCall # <<>> /\ fnCall.name = "parse_url" /\ fnResult = <<>>
    /\ fnResult' = <<parse_url(Url(fnCall.form, fnCall.shape, fnCall.user, fnCall.host,
                                   fnCall.path, fnCall.suffix))>>
    /\ UNCHANGED <<cmdVars, cpVars, pgVars, stVars, cfVars, fnCall>>

InitParseUrl ==
    /\ IdleCommand /\ IdleCreatePr /\ IdlePaginated /\ IdleState /\ IdleConfig
    /\ fnCall \in [name : {"parse_url"}, form : UrlForms, shape : UrlShapes,
                   user : UrlUsers, host : UrlHosts, path : UrlPaths,
                   suffix : UrlSuffixes]
    /\ fnCall.form \in {"scp", "local"} => fnCall.shape = "whole"
    /\ fnResult = <<>>

NextParseUrl == ParseUrl

SpecParseUrl == InitParseUrl /\ [][NextParseUrl]_vars

\* the three forms of the claim: https://host/a/b.git, ssh://user@host/a/b,
\* git@host:a/b.git
ClaimedForm ==
    /\ fnCall.shape = "whole"
    /\ \/ fnCall.form = "https" /\ fnCall.user = <<>> /\ fnCall.suffix = DotGit
       \/ fnCall.form = "ssh" /\ fnCall.user # <<>> /\ fnCall.suffix = <<>>
       \/ fnCall.form = "scp" /\ fnCall.user = <<"g", "i", "t">> /\ fnCall.suffix = DotGit

\* C18 as claimed: for the three forms parse_url returns the host without
\* the user and the path a/b without the .git suffix.
C18_AsClaimed ==
    (fnResult # <<>> /\ ClaimedForm) => fnResult[1] = UrlOk(fnCall.host, fnCall.path)

\* C18 for paths that contain .git nowhere but as the suffix
C18_PathsWithoutInnerDotGit ==
    (fnResult # <<>> /\ ClaimedForm /\ split_once_str(fnCall.path, DotGit) = <<>>)
        => fnResult[1] = UrlOk(fnCall.host, fnCall.path)

\* https://h/a/b.github.io.git parsed to the path a/b
C18_CutWitness ==
    /\ fnCall # <<>> /\ fnCall.name = "parse_url" /\ fnCall.form = "https"
    /\ fnCall.path = <<"a", "/", "b", ".", "g", "i", "t", "h", "u", "b", ".", "i", "o">>
    /\ fnResult # <<>> /\ fnResult[1].ok /\ fnResult[1].path = <<"a", "/", "b">>

\* the path p of the URL does not end in .git
PathWithoutSuffix ==
    Len(fnCall.path) < Len(DotGit)
    \/ SubSeq(fnCall.path, Len(fnCall.path) - Len(DotGit) + 1, Len(fnCall.path)) # DotGit

\* C27 as claimed: parse_url removes .git only as the suffix of the path:
\* for a path p that does not end in .git, the URLs with p and with p.git
\* both give the path p.
C27_AsClaimed ==
    (fnResult # <<>> /\ fnResult[1].ok /\ PathWithoutSuffix) =>
        fnResult[1].path = fnCall.path

\* C27, as the code has it: the returned path is the path up to its first
\* .git, wherever that is, and the whole path when it has none.
C27_CutAtFirstDotGit ==
    (fnResult # <<>> /\ fnResult[1].ok) =>
        LET whole == fnCall.path \o fnCall.suffix
            r == fnResult[1].path
        IN  /\ Len(r) <= Len(whole) /\ SubSeq(whole, 1, Len(r)) = r
            /\ split_once_str(r, DotGit) = <<>>
            /\ r # whole => SubSeq(whole, Len(r) + 1, Len(r) + Len(DotGit)) = DotGit

\* a/b.github.io without suffix, by ssh: parsed to the path a/b
C27_InnerWitness ==
    /\ fnCall # <<>> /\ fnCall.name = "parse_url" /\ fnCall.form = "ssh"
    /\ fnCall.suffix = <<>>
    /\ fnCall.path = <<"a", "/", "b", ".", "g", "i", "t", "h", "u", "b", ".", "i", "o">>
    /\ fnResult # <<>> /\ fnResult[1].ok /\ fnResult[1].path = <<"a", "/", "b">>

\* C30 as claimed: parse_url returns a (host, path) pair or an error value
\* for every input and never aborts; a URL with the scheme http, https, ssh
\* or git and fewer than two characters after the first colon, or with no
\* slash after the host, gets an error value.
C30_AsClaimed ==
    fnResult # <<>> =>
        /\ fnResult[1].err # "Panic"
        /\ (fnCall.form \in {"http", "https", "ssh", "git"} /\ fnCall.shape # "whole")
                => ~fnResult[1].ok

\* C30, the part the code has: scheme://[user@]host without a slash after
\* the host gets the error "URL should contain a path."
C30_NoPathIsAnError ==
    (fnResult # <<>> /\ fnCall.form \in {"http", "https", "ssh", "git"}
        /\ fnCall.shape = "no path") => fnResult[1] = UrlErr("NoPath")

\* https: has nothing after the colon: rest[2..] is out of range
C30_AbortWitness ==
    /\ fnCall # <<>> /\ fnCall.name = "parse_url" /\ fnCall.form = "https"
    /\ fnCall.shape = "bare" /\ fnResult # <<>> /\ fnResult[1].err = "Panic"

(***************************************************************************)
(* LocalRepository::get_branch_commits_from_target                         *)
(* (specification SpecCommits)                                             *)
(***************************************************************************)
\* commits are numbered in the order they were made: a commit's parents have
\* smaller numbers
Commits == 1..MaxCommits
CommitGraphs ==
    {g \in [Commits -> SUBSET Commits] : \A c \in Commits : g[c] \subseteq 1..(c - 1)}

\* the commits reachable from a commit, itself included
RECURSIVE Reachable(_, _)
Reachable(g, c) == {c} \cup UNION {Reachable(g, p) : p \in g[c]}

\* what a Revwalk with Sort::TOPOLOGICAL started at tip may yield: the
\* reachable commits, each once, no commit before one of its descendants
Revwalks(g, tip) ==
    {w \in [1..Cardinality(Reachable(g, tip)) -> Reachable(g, tip)] :
        /\ \A i, j \in DOMAIN w : i # j => w[i] # w[j]
        /\ \A i, j \in DOMAIN w : w[j] \in g[w[i]] => i < j}

\* Commit::summary: the first line of the message, or None without one
summary(c) == <<"m", c>>

\* Iterator::filter and filter_map on a sequence
RECURSIVE filter_walk(_, _)
filter_walk(w, keep) ==
    IF w = <<>> THEN <<>>
    ELSE IF Head(w) \in keep THEN <<Head(w)>> \o filter_walk(Tail(w), keep)
    ELSE filter_walk(Tail(w), keep)

\* a slip: the commits of the target are kept and the others dropped
unique_messages_kept_swapped(walk, target_oids, with_summary) ==
    LET unique == filter_walk(walk, target_oids)
        shown == filter_walk(unique, with_summary)
    IN  [i \in 1..Len(shown) |-> summary(shown[i])]

\* "Get messages from the commits on branch not on target"
unique_messages(walk, target_oids, with_summary) ==
    LET unique == filter_walk(walk, {c \in Commits : c \notin target_oids})
        shown == filter_walk(unique, with_summary)
    IN  [i \in 1..Len(shown) |-> summary(shown[i])]

GetBranchCommitsFromTarget ==
    /\ fnCall # <<>> /\ fnCall.name = "get_branch_commits_from_target"
    /\ fnResult = <<>>
    /\ IF fnCall.target_tip = 0 \/ fnCall.branch_tip = 0
       THEN fnResult' = <<[ok |-> FALSE, err |-> "BranchNotFound",
                           walk |-> <<>>, messages |-> <<>>]>>
       ELSE \E w \in Revwalks(fnCall.graph, fnCall.branch_tip) :
              fnResult' = <<[ok |-> TRUE, err |-> None, walk |-> w,
                             messages |-> unique_messages(
                                 w, Reachable(fnCall.graph, fnCall.target_tip),
                                 fnCall.with_summary)]>>
    /\ UNCHANGED <<cmdVars, cpVars, pgVars, stVars, cfVars, fnCall>>

\* a repository with its commits, the branch (None: HEAD) and the target;
\* a tip of 0 is a branch that does not exist; HEAD always has a commit
InitCommits ==
    /\ IdleCommand /\ IdleCreatePr /\ IdlePaginated /\ IdleState /\ IdleConfig
    /\ fnCall \in [name : {"get_branch_commits_from_target"},
                   graph : CommitGraphs, with_summary : SUBSET Commits,
                   branch_name : {None, "feat"}, branch_tip : 0..MaxCommits,
                   target_tip : 0..MaxCommits]
    /\ fnCall.branch_name = None => fnCall.branch_tip # 0
    /\ fnResult = <<>>

NextCommits == GetBranchCommitsFromTarget

SpecCommits == InitCommits /\ [][NextCommits]_vars

\* the commits of the branch that the target does not have
UniqueCommits ==
    Reachable(fnCall.graph, fnCall.branch_tip) \ Reachable(fnCall.graph, fnCall.target_tip)

C19_SameCommitWitness ==
    /\ fnCall # <<>> /\ fnCall.name = "get_branch_commits_from_target"
    /\ fnCall.target_tip = 2 /\ fnCall.branch_tip = 2
    /\ fnResult # <<>> /\ fnResult[1].ok /\ fnResult[1].messages = <<>>

(***************************************************************************)
(* The description of pr create (specification SpecDescription)            *)
(***************************************************************************)
\* texts are sequences of characters; "\n" is the line feed
StdinTexts == SeqsUpTo({"a", "\n"}, MaxTextLen)

\* standard input: a terminal, or a pipe with its text, readable or not
Stdins ==
    {[kind |-> "tty", text |-> <<>>, readable |-> TRUE]}
    \cup [kind : {"piped"}, text : StdinTexts, readable : BOOLEAN]

\* the summaries get_branch_commits_from_target gives for the source branch
\* of one repository, by target branch
UniqueSummaries(target) ==
    CASE target = "main" -> <<"fix">>
      [] target = "master" -> <<"fix", "add">>
      [] OTHER -> <<>>

\* input.lines().collect::<Result<String, _>>(): the lines, each without its
\* line feed, joined with nothing between them
RECURSIVE collect_lines(_)
collect_lines(text) ==
    IF text = <<>> THEN <<>>
    ELSE IF Head(text) = "\n" THEN collect_lines(Tail(text))
    ELSE <<Head(text)>> \o collect_lines(Tail(text))

\* commits.into_iter().map(|s| format!("- {}\n", s)).collect::<String>()
RECURSIVE format_commits(_)
format_commits(summaries) ==
    IF summaries = <<>> THEN <<>>
    ELSE <<"- ", Head(summaries), "\n">> \o format_commits(Tail(summaries))

\* a slip: the commits are listed although --description was given
description_of_commits_first(a) ==
    LET against == IF a.target # None THEN a.target
                   ELSE IF a.default_branch # None THEN a.default_branch
                   ELSE "master"
    IN  IF against \in a.local THEN format_commits(UniqueSummaries(against))
        ELSE IF a.description # <<>> THEN a.description[1]
        ELSE <<>>

\* "Read the description from the STDIN or fallback to" the commits:
\* description.or_else(stdin).or_else(commits).unwrap_or_default()
description_of(a) ==
    LET against == IF a.target # None THEN a.target
                   ELSE IF a.default_branch # None THEN a.default_branch
                   ELSE "master"
    IN  IF a.description # <<>> THEN a.description[1]
        ELSE IF a.stdin.kind = "piped" /\ a.stdin.readable
        THEN collect_lines(a.stdin.text)
        ELSE IF against \in a.local
        THEN format_commits(UniqueSummaries(against))
        ELSE <<>>

CreateDescription ==
    /\ fnCall # <<>> /\ fnCall.name = "description" /\ fnResult = <<>>
    /\ fnResult' = <<description_of(fnCall)>>
    /\ UNCHANGED <<cmdVars, cpVars, pgVars, stVars, cfVars, fnCall>>

\* --description, standard input, --target, the cached default branch, the
\* repository's default branch and the local branches
InitDescription ==
    /\ IdleCommand /\ IdleCreatePr /\ IdlePaginated /\ IdleState /\ IdleConfig
    /\ fnCall \in [name : {"description"},
                   description : {<<>>, <<<<"d">>>>},
                   stdin : Stdins,
                   target : {None, "dev"},
                   default_branch : {None, "main"},
                   repo_default : {"main", "master"},
                   local : SUBSET {"main", "master", "dev"}]
    /\ fnResult = <<>>

NextDescription == CreateDescription

SpecDescription == InitDescription /\ [][NextDescription]_vars

\* the branch the claim derives the commits against
ClaimedAgainst ==
    IF fnCall.target # None THEN fnCall.target
    ELSE IF fnCall.default_branch # None THEN fnCall.default_branch
    ELSE fnCall.repo_default

\* C25 as claimed: the description is --description if given; else the text
\* read from standard input (with or without the line feed that ends it)
\* when that is not a terminal; else, whenever the
\* branch to compare with exists locally, the list of the commit summaries
\* unique to the source relative to the target (explicit, else the
\* repository's default branch).
C25_AsClaimed ==
    fnResult # <<>> =>
        IF fnCall.description # <<>> THEN fnResult[1] = fnCall.description[1]
        ELSE IF fnCall.stdin.kind = "piped" /\ fnCall.stdin.readable
        THEN \/ fnResult[1] = fnCall.stdin.text
             \/ fnResult[1] \o <<"\n">> = fnCall.stdin.text
        ELSE ClaimedAgainst \in fnCall.local
                => fnResult[1] = format_commits(UniqueSummaries(ClaimedAgainst))

\* C25, as the code has it: --description first; else the piped text with
\* its line feeds removed; else the commits relative to --target, else the
\* cached default branch, else "master", and nothing when that branch does
\* not exist locally.
C25_OrderWithMasterFallback ==
    fnResult # <<>> =>
        IF fnCall.description # <<>> THEN fnResult[1] = fnCall.description[1]
        ELSE IF fnCall.stdin.kind = "piped" /\ fnCall.stdin.readable
        THEN /\ \A i \in 1..Len(fnResult[1]) : fnResult[1][i] # "\n"
             /\ Len(fnResult[1]) =
                  Cardinality({i \in 1..Len(fnCall.stdin.text) : fnCall.stdin.text[i] # "\n"})
        ELSE LET against == IF fnCall.target # None THEN fnCall.target
                            ELSE IF fnCall.default_branch # None THEN fnCall.default_branch
                            ELSE "master"
             IN  IF against \in fnCall.local
                 THEN fnResult[1] = format_commits(UniqueSummaries(against))
                 ELSE fnResult[1] = <<>>

\* no cached default branch, the repository's default branch main: an empty
\* description although main has a commit the source adds to
C25_MasterWitness ==
    /\ fnCall # <<>> /\ fnCall.name = "description"
    /\ fnCall.description = <<>> /\ fnCall.stdin.kind = "tty"
    /\ fnCall.target = None /\ fnCall.default_branch = None
    /\ fnCall.repo_default = "main" /\ fnCall.local = {"main", "dev"}
    /\ fnResult = <<<<>>>>

\* two piped lines joined into one
C25_LinesWitness ==
    /\ fnCall # <<>> /\ fnCall.name = "description"
    /\ fnCall.description = <<>> /\ fnCall.stdin.text = <<"a", "\n", "a">>
    /\ fnCall.stdin.readable /\ fnResult = <<<<"a", "a">>>>

(***************************************************************************)
(* SpecConfig: invocations of gr running at the same time over one         *)
(* configuration file (src/cmd/config.rs, src/main.rs).  main reads the    *)
(* file once with Configuration::parse; a command that changes an entry    *)
(* changes its own Configuration and calls save, which serialises the      *)
(* whole map and hands it to std::fs::write: the file is created anew      *)
(* (emptied) and then filled.  Nothing locks the file.                     *)
(***************************************************************************)
Invocations == {"first", "second"}
\* the entries of the file (repositories of a configured host) and the
\* default branch an entry caches
ConfKeys == {"o/a", "o/b"}
ConfCached == {"main", "dev"}
ConfContents == [ConfKeys -> {None} \cup ConfCached]
DefaultContent == [k \in ConfKeys |-> None]
\* what an invocation does to the configuration: pr create, repo fork, repo
\* get and login change one entry and save, every other command leaves it
ConfChanges ==
    [writes : {TRUE}, key : ConfKeys, value : ConfCached]
        \cup {[writes |-> FALSE, key |-> None, value |-> None]}

\* Configuration::parse: a file that cannot be read or is not JSON yields
\* the default (empty) map
parse_config(file) == IF file.filled THEN file.vcs ELSE DefaultContent

\* a variant that leaves the Configuration as it was read
modified_unchanged(vcs, change) == vcs
\* entry(repo).and_modify(..).or_insert(..) on the invocation's Configuration
modified(vcs, change) == [vcs EXCEPT ![change.key] = change.value]

\* main.rs: let conf = Configuration::parse(args.config.clone())?
ConfigParse(p) ==
    /\ cfProc # <<>> /\ cfProc[p].pc = "start"
    /\ cfProc' = [cfProc EXCEPT ![p].pc = "run",
                                ![p].startup = <<parse_config(cfFile)>>,
                                ![p].vcs = <<parse_config(cfFile)>>,
                                ![p].reads = @ + 1]
    /\ UNCHANGED <<cmdVars, cpVars, pgVars, stVars, fnVars, cfFile>>

\* a command that never calls save
ConfigExit(p) ==
    /\ cfProc # <<>> /\ cfProc[p].pc = "run" /\ ~cfProc[p].change.writes
    /\ cfProc' = [cfProc EXCEPT ![p].pc = "done"]
    /\ UNCHANGED <<cmdVars, cpVars, pgVars, stVars, fnVars, cfFile>>

\* the command changes its entry; save serialises self.vcs and write opens
\* the file, which empties it
ConfigOpen(p) ==
    /\ cfProc # <<>> /\ cfProc[p].pc = "run" /\ cfProc[p].change.writes
    /\ cfProc' = [cfProc EXCEPT ![p].pc = "writing",
                                ![p].vcs = <<modified(cfProc[p].vcs[1], cfProc[p].change)>>]
    /\ cfFile' = [filled |-> FALSE, vcs |-> DefaultContent]
    /\ UNCHANGED <<cmdVars, cpVars, pgVars, stVars, fnVars>>

\* write puts the serialised map into the file and the command returns
ConfigWrite(p) ==
    /\ cfProc # <<>> /\ cfProc[p].pc = "writing"
    /\ cfFile' = [filled |-> TRUE, vcs |-> cfProc[p].vcs[1]]
    /\ cfProc' = [cfProc EXCEPT ![p].pc = "done", ![p].writes = @ + 1]
    /\ UNCHANGED <<cmdVars, cpVars, pgVars, stVars, fnVars>>

\* a configuration file as an earlier invocation left it, and two
\* invocations about to start
InitConfig ==
    /\ IdleCommand /\ IdleCreatePr /\ IdlePaginated /\ IdleState /\ IdleFn
    /\ cfFile \in [filled : {TRUE}, vcs : ConfContents]
    /\ cfProc \in [Invocations -> [pc : {"start"}, change : ConfChanges,
                                   startup : {<<>>}, vcs : {<<>>},
                                   reads : {0}, writes : {0}]]

NextConfig ==
    \E p \in Invocations :
        \/ ConfigParse(p)
        \/ ConfigExit(p)
        \/ ConfigOpen(p)
        \/ ConfigWrite(p)

SpecConfig == InitConfig /\ [][NextConfig]_vars

\* C28: an invocation reads the configuration file once, before anything
\* else, and writes it at most once; what a write leaves in the file is the
\* whole map the invocation read at startup with its own change applied,
\* whatever the file held in between.
C28_ReadOnceOverwriteWhole ==
    /\ [](cfProc # <<>> =>
            \A p \in Invocations :
                /\ cfProc[p].reads <= 1 /\ cfProc[p].writes <= 1
                /\ cfProc[p].pc = "start" <=> cfProc[p].reads = 0)
    /\ [][cfProc # <<>> =>
            \A p \in Invocations :
                cfProc'[p].writes > cfProc[p].writes =>
                    /\ cfProc[p].change.writes
                    /\ cfFile'.filled
                    /\ cfFile'.vcs = [cfProc[p].startup[1]
                                        EXCEPT ![cfProc[p].change.key] = cfProc[p].change.value]]_vars

\* both invocations changed their own entry and wrote the file, and the
\* change of one is not in the file: its entry is back to what the other
\* read at startup
C28_LostUpdateWitness ==
    /\ cfProc # <<>>
    /\ \E p, q \in Invocations :
        /\ p # q
        /\ cfProc[p].pc = "done" /\ cfProc[q].pc = "done"
        /\ cfProc[p].writes = 1 /\ cfProc[q].writes = 1
        /\ cfProc[p].change.key # cfProc[q].change.key
        /\ cfFile.filled
        /\ cfFile.vcs[cfProc[p].change.key] # cfProc[p].change.value
        /\ cfFile.vcs[cfProc[p].change.key] = cfProc[q].startup[1][cfProc[p].change.key]
        /\ cfFile.vcs[cfProc[q].change.key] = cfProc[q].change.value

\* an invocation read the file while another had it open for writing and
\* started from an empty configuration
C28_EmptyReadWitness ==
    /\ cfProc # <<>>
    /\ \E p, q \in Invocations :
        /\ p # q /\ cfProc[q].pc = "writing" /\ cfProc[p].pc = "run"
        /\ cfProc[q].vcs[1] # DefaultContent
        /\ cfProc[p].startup[1] = DefaultContent

====
